---------------------------- MODULE Spec2Model ----------------------------
(***************************************************************************)
(* Feed controller (App component) and retry wrapper (fetchWithRetry) of   *)
(* the e6 client.                                                          *)
(*                                                                         *)
(* One event-loop turn of the browser is one step: a handler runs to its   *)
(* first await, React commits the batched state updates, re-renders and    *)
(* runs the effects of that render before any other event is delivered.    *)
(* A network response is a separate, later step (the continuation after    *)
(* the await).                                                             *)
(***************************************************************************)
EXTENDS Naturals, Sequences, FiniteSets, Bags, TLC

(* ------------------------------ bounds -------------------------------- *)
MaxId == 2          \* post ids are 1..MaxId
MaxPageLen == 2     \* posts in one server page
MaxInFlight == 2    \* requests outstanding at once
MaxPage == 2        \* append requests are issued for pages up to this one
MaxHistory == 1     \* entries kept in navigationHistory
MaxGivenRetries == 3 \* fetchWithRetry is tried with 0..MaxGivenRetries retries
MaxQueryLen == 3     \* pieces in the text of the search box
MaxCredLen == 2      \* characters in a username or an API key
MaxBlacklist == 2    \* entries of the blacklist given to isPostBlacklisted
MaxListLen == 2      \* entries of a list a lookup is given or answered with
MaxIssued == 3       \* autocomplete requests issued in one behaviour
MaxRuns == 3         \* runs of the load effect of PostDetail in one behaviour
MaxAccounts == 2     \* accounts in the list of the settings

(* ------------------------- program constants -------------------------- *)
MinQueryLength == 3      \* debouncedQuery.length < 3, lastTag.length < 3
DefaultRetries == 3     \* APP_CONFIG.api.maxRetries
InitialDelay == 1000    \* delay: number = 1000

Ids == 1..MaxId
Tabs == {"home", "favorites"}
NULL == "null"

VARIABLES
  tab,                \* useState<Tab>('home')
  posts,              \* useState<Post[]>([]), posts reduced to their ids
  loading,            \* useState(false)
  error,              \* useState<string | null>(null)
  page,               \* useState(1)
  hasMore,            \* useState(true)
  selectedPost,       \* useState<Post | null>(null): TRUE when a post is open
  navigationHistory,  \* useRef<Tab[]>([])
  username,           \* getActiveAccount(settings)?.username, "" when absent
  blacklistedTags,    \* settings.blacklistedTags
  inflight,           \* bag of api.getPosts calls that have not settled yet
  delivered           \* what the step just taken handed to fetchPosts

feedVars == <<tab, posts, loading, error, page, hasMore, selectedPost,
              navigationHistory, username, blacklistedTags, inflight,
              delivered>>

VARIABLES
  maxRetries,         \* the retries argument fetchWithRetry was called with
  retries,            \* the retries parameter of the running invocation
  delay,              \* its delay parameter, in ms
  calls,              \* the outcomes of fn(), one per invocation so far
  waits,              \* the delays slept through so far, in ms
  rpc,                \* "call", "wait", "returned" or "thrown"
  result              \* what the caller of fetchWithRetry got

retryVars == <<maxRetries, retries, delay, calls, waits, rpc, result>>

VARIABLES
  call,               \* the function of the api and utils modules applied
                      \* last, with its arguments and what the network did
  ret                 \* what it returned, with the requests it sent

apiVars == <<call, ret>>

VARIABLES
  queryText,          \* const [query, setQuery] = useState('')
  debouncedQuery,     \* useDebounce(query, 300)
  showSuggestions,    \* useState(false)
  suggestions,        \* useState<TagSuggestion[]>([]), reduced to tag names
  issued,             \* the tags api.searchTags was called with, in order
  pending             \* the positions in issued of the calls not yet settled

autoVars == <<queryText, debouncedQuery, showSuggestions, suggestions, issued,
              pending>>

VARIABLES
  detailPost,         \* the post prop of the mounted PostDetail, 0 when
                      \* selectedPost is null and no PostDetail is mounted
  comments,           \* useState<Comment[]>([])
  loadingComments,    \* useState(false)
  uploaderName,       \* useState('Unknown')
  runs                \* the runs of the load effect, each with its
                      \* cancelled flag and the requests it has sent

detailVars == <<detailPost, comments, loadingComments, uploaderName, runs>>

VARIABLES
  accounts,           \* settings.accounts of useSettings
  activeAccountId,    \* settings.activeAccountId
  isOpen,             \* settingsOpen: the SettingsModal is shown
  local,              \* useState<Settings>(settings) of SettingsModal,
                      \* reduced to accounts and activeAccountId
  editingAccount,     \* useState<Account | null>(null) of AccountTab:
                      \* <<>> for null, <<account>> otherwise
  issuedIds           \* the ids crypto.randomUUID() has returned so far

accountVars == <<accounts, activeAccountId, isOpen, local, editingAccount,
                 issuedIds>>

sideVars == <<autoVars, detailVars, accountVars>>

vars == <<feedVars, retryVars, apiVars, sideVars>>

(* --------------------------- server and errors ------------------------ *)
\* Every page the server may return: any sequence of post ids, overlapping
\* or repeating ones included.
Pages == UNION {[1..n -> Ids] : n \in 0..MaxPageLen}

\* Errors api.getPosts may reject with, as parseApiError sees them:
\* axios is axios.isAxiosError(error), response the HTTP status of
\* error.response (0 when the error carries no response), statusText its
\* error.response.statusText, request whether error.request is set, isError
\* is error instanceof Error and message is error.message.
StatusText(status) ==
  CASE status = 401 -> "Unauthorized"
    [] status = 403 -> "Forbidden"
    [] status = 404 -> "Not Found"
    [] status = 500 -> "Internal Server Error"
    [] status = 503 -> "Service Unavailable"
    [] OTHER -> ""
HttpError(status) ==
  [axios |-> TRUE, response |-> status, statusText |-> StatusText(status),
   request |-> TRUE, isError |-> TRUE,
   message |-> "Request failed with status code " \o ToString(status)]
AuthError == HttpError(403)
NetworkError ==
  [axios |-> TRUE, response |-> 0, statusText |-> "", request |-> TRUE,
   isError |-> TRUE, message |-> "Network Error"]
\* An error that is no AxiosError, thrown by the operation itself once the
\* response is in (res.data.posts on a body that is null): it carries no
\* response and no request.
TypeError ==
  [axios |-> FALSE, response |-> 0, statusText |-> "", request |-> FALSE,
   isError |-> TRUE, message |-> "Cannot read properties of null"]
NoError ==
  [axios |-> FALSE, response |-> 200, statusText |-> "", request |-> FALSE,
   isError |-> FALSE, message |-> ""]
FeedErrors == {AuthError, NetworkError}

ValidationMsg == "Please set your username in Settings > Account to view favorites."

AuthMessage(status) ==
  "Authentication failed (" \o ToString(status)
    \o "). Check your API credentials."
ServerMessage(status, statusText) ==
  "Server error: " \o ToString(status) \o " " \o statusText
NetworkMessage ==
  "Network error. Check your connection or try enabling the proxy."
UnexpectedMessage == "An unexpected error occurred"

\* only 401 counts as an authentication failure: 403 is a server error
parseApiErrorOnly401(err) ==
  IF err.axios
    THEN IF err.response # 0
           THEN IF err.response = 401
                  THEN AuthMessage(err.response)
                  ELSE ServerMessage(err.response, err.statusText)
           ELSE IF err.request THEN NetworkMessage ELSE err.message
    ELSE IF err.isError THEN err.message ELSE UnexpectedMessage

parseApiError(err) ==
  IF err.axios
    THEN IF err.response # 0
           THEN IF err.response = 401 \/ err.response = 403
                  THEN AuthMessage(err.response)
                  ELSE ServerMessage(err.response, err.statusText)
           ELSE IF err.request THEN NetworkMessage ELSE err.message
    ELSE IF err.isError THEN err.message ELSE UnexpectedMessage

(* ------------------------------ helpers ------------------------------- *)
Range(s) == {s[i] : i \in 1..Len(s)}

RECURSIVE filterNewReversed(_, _)
\* mutant of filterNew: the kept posts come out in reverse order
filterNewReversed(fetched, existing) ==
  IF fetched = <<>> THEN <<>>
  ELSE IF Head(fetched) \in existing
         THEN filterNewReversed(Tail(fetched), existing)
         ELSE filterNewReversed(Tail(fetched), existing) \o <<Head(fetched)>>

RECURSIVE filterNew(_, _)
\* fetched.filter((p) => !existing.has(p.id))
filterNew(fetched, existing) ==
  IF fetched = <<>> THEN <<>>
  ELSE IF Head(fetched) \in existing
         THEN filterNew(Tail(fetched), existing)
         ELSE <<Head(fetched)>> \o filterNew(Tail(fetched), existing)

\* mutant of mergePosts: the page is appended unfiltered
mergePostsNoFilter(prev, fetched) == prev \o fetched

\* setPosts((prev) => [...prev, ...fetched.filter(...)])
mergePosts(prev, fetched) == prev \o filterNew(fetched, Range(prev))

\* Array.prototype.includes
includes(arr, x) == \E i \in 1..Len(arr) : arr[i] = x

NoTags == [general |-> <<>>, species |-> <<>>, character |-> <<>>,
           artist |-> <<>>, invalid |-> <<>>, meta |-> <<>>, lore |-> <<>>]

\* mutant of isPostBlacklisted: the tags of every category are looked at
isPostBlacklistedAnyCategory(post, blacklist) ==
  IF Len(blacklist) = 0 THEN FALSE
  ELSE LET allTags == post.tags.general \o post.tags.species
                        \o post.tags.character \o post.tags.artist
                        \o post.tags.invalid \o post.tags.meta
                        \o post.tags.lore
       IN \E i \in 1..Len(allTags) : includes(blacklist, allTags[i])

\* utils: isPostBlacklisted(post, blacklist)
isPostBlacklisted(post, blacklist) ==
  IF Len(blacklist) = 0 THEN FALSE
  ELSE LET allTags == post.tags.general \o post.tags.species
                        \o post.tags.character \o post.tags.artist
       IN \E i \in 1..Len(allTags) : includes(blacklist, allTags[i])

\* The posts the server holds, by id: post 1 carries the tag "gore" as a
\* general tag, every other post carries it as a meta tag only.
PostOf(id) ==
  [id |-> id,
   tags |-> IF id = 1 THEN [NoTags EXCEPT !.general = <<"gore">>]
                      ELSE [NoTags EXCEPT !.meta = <<"gore">>]]

\* The blacklists the settings hold in the feed.
Blacklists == {<<>>, <<"gore">>}

\* const visible = posts.filter((p) => !isPostBlacklisted(p, settings.blacklistedTags))
visible ==
  SelectSeq(posts, LAMBDA id : ~isPostBlacklisted(PostOf(id), blacklistedTags))

InFlightCount == BagCardinality(inflight)
Requests == BagToSet(inflight)
AddRequest(bag, r) == bag (+) SetToBag({r})
RemoveRequest(bag, r) == bag (-) SetToBag({r})

FeedRequest(reset, pg, t, user) ==
  [kind |-> "feed", reset |-> reset, page |-> pg, tab |-> t,
   fav |-> IF t = "favorites" THEN user ELSE ""]
RandomRequest ==
  [kind |-> "random", reset |-> FALSE, page |-> 1, tab |-> "home", fav |-> ""]

\* The values a render closes over, read by the fetchPosts of that render.
Closure == [tab |-> tab, loading |-> loading, hasMore |-> hasMore,
            page |-> page, username |-> username]
Current == [loading |-> loading, error |-> error, inflight |-> inflight,
            outcome |-> "none"]

\* mutant of fetchPosts: the favorites check is missing
fetchPostsNoValidation(c, reset, cur) ==
  IF c.loading \/ (~reset /\ ~c.hasMore)
    THEN [cur EXCEPT !.outcome = "skipped"]
  ELSE [loading |-> TRUE,
        error |-> IF reset THEN NULL ELSE cur.error,
        inflight |-> cur.inflight (+) SetToBag({
                       [kind |-> "feed", reset |-> reset,
                        page |-> IF reset THEN 1 ELSE c.page, tab |-> c.tab,
                        fav |-> IF c.tab = "favorites" THEN c.username ELSE ""]}),
        outcome |-> "issued"]

\* fetchPosts(reset) up to its first await, run with the closure c on the
\* pending state cur. outcome: "skipped" (early return), "rejected" (the
\* favorites validation threw before any call) or "issued" (getPosts called).
fetchPosts(c, reset, cur) ==
  IF c.loading \/ (~reset /\ ~c.hasMore)
    THEN [cur EXCEPT !.outcome = "skipped"]
  ELSE IF c.tab = "favorites" /\ c.username = ""
    THEN [loading |-> FALSE,
          error |-> IF reset THEN ValidationMsg ELSE cur.error,
          inflight |-> cur.inflight,
          outcome |-> "rejected"]
  ELSE [loading |-> TRUE,
        error |-> IF reset THEN NULL ELSE cur.error,
        inflight |-> AddRequest(cur.inflight,
                       FeedRequest(reset, IF reset THEN 1 ELSE c.page,
                                   c.tab, c.username)),
        outcome |-> "issued"]

Room(r) == BagCardinality(r.inflight) <= MaxInFlight

\* delivered: the page a resolved getPosts handed over in the step just
\* taken, with the reset flag of its fetchPosts call and the list and
\* cursor it found; Nothing after any other step.
Nothing == [ok |-> FALSE, reset |-> FALSE, fetched |-> <<>>,
            prevPosts |-> <<>>, prevPage |-> 1,
            failed |-> FALSE, message |-> NULL, prevError |-> NULL]
Page(reset, fetched) == [Nothing EXCEPT !.ok = TRUE, !.reset = reset,
                                        !.fetched = fetched,
                                        !.prevPosts = posts, !.prevPage = page]
\* A rejected getPosts: the reset flag of its fetchPosts call, the
\* translation of the error caught and the error state it found.
Failure(reset, err) == [Nothing EXCEPT !.failed = TRUE, !.reset = reset,
                                       !.message = parseApiError(err),
                                       !.prevError = error]

Commit(r) ==
  /\ Room(r)
  /\ loading' = r.loading
  /\ error' = r.error
  /\ inflight' = r.inflight

(* -------------------------------- Init -------------------------------- *)
\* The state after the first render and its mount effect: the [tab] effect
\* has called fetchPosts(true) for the home tab.
InitFeed ==
  /\ tab = "home"
  /\ posts = <<>>
  /\ loading = TRUE
  /\ error = NULL
  /\ page = 1
  /\ hasMore = TRUE
  /\ selectedPost = FALSE
  /\ navigationHistory = <<>>
  /\ username \in {"", "u"}
  /\ blacklistedTags \in Blacklists
  /\ inflight = SetToBag({FeedRequest(TRUE, 1, "home", "")})
  /\ delivered = Nothing

(* ------------------------------ actions ------------------------------- *)
\* setTab(t) with the updates of the handler, then the effect on [tab] of
\* the next render: fetchPosts(true) with that render's closure.
SwitchTo(t, pg, hist) ==
  LET c == [Closure EXCEPT !.tab = t, !.page = pg]
      r == IF t # tab THEN fetchPosts(c, TRUE, Current) ELSE Current
  IN /\ Commit(r)
     /\ tab' = t
     /\ page' = pg
     /\ navigationHistory' = hist
     /\ delivered' = Nothing
     /\ UNCHANGED <<retryVars, apiVars, sideVars, blacklistedTags, posts, hasMore,
                    selectedPost, username>>

\* handleTabChange pushes the tab left behind
Pushed(t) == IF t # tab THEN Append(navigationHistory, tab) ELSE navigationHistory
CanPush(t) == t # tab => Len(navigationHistory) < MaxHistory

\* The Favorites button of TabBar and MobileNav is rendered when logged in.
isLoggedIn == username # ""

\* <TabBar onChange={(t) => { handleTabChange(t); setPage(1); }} />
TabBarClick(t) ==
  /\ t = "favorites" => isLoggedIn
  /\ CanPush(t)
  /\ SwitchTo(t, 1, Pushed(t))

\* <MobileNav onTabChange={setTab} />
MobileNavClick(t) ==
  /\ t # tab
  /\ t = "favorites" => isLoggedIn
  /\ SwitchTo(t, page, navigationHistory)

\* keys 'h' and 'f', enabled while no post is open
KeyboardTab(t) ==
  /\ ~selectedPost
  /\ t # tab
  /\ t = "favorites" => username # ""
  /\ CanPush(t)
  /\ SwitchTo(t, page, Pushed(t))

\* handleBackButton
BackButton ==
  IF selectedPost
    THEN /\ selectedPost' = FALSE
         /\ delivered' = Nothing
         /\ UNCHANGED <<retryVars, apiVars, sideVars, blacklistedTags, tab, posts,
                        loading, error, page, hasMore, navigationHistory,
                        username, inflight>>
    ELSE /\ navigationHistory # <<>>
         /\ SwitchTo(navigationHistory[Len(navigationHistory)], page,
                     SubSeq(navigationHistory, 1, Len(navigationHistory) - 1))

\* key 'r' and the refresh button: fetchPosts(true)
Refresh ==
  LET r == fetchPosts(Closure, TRUE, Current)
  IN /\ Commit(r)
     /\ delivered' = Nothing
     /\ UNCHANGED <<retryVars, apiVars, sideVars, blacklistedTags, tab, posts, page,
                    hasMore, selectedPost, navigationHistory, username>>

\* handleSearch: setHasMore(true); fetchPosts(true)
Search ==
  LET r == fetchPosts(Closure, TRUE, Current)
  IN /\ Commit(r)
     /\ hasMore' = TRUE
     /\ delivered' = Nothing
     /\ UNCHANGED <<retryVars, apiVars, sideVars, blacklistedTags, tab, posts, page,
                    selectedPost, navigationHistory, username>>

\* the intersection observer callback: if (hasMore && !loading) fetchPosts(false)
Scroll ==
  LET r == fetchPosts(Closure, FALSE, Current)
  IN /\ hasMore /\ ~loading
     /\ page <= MaxPage
     /\ Commit(r)
     /\ delivered' = Nothing
     /\ UNCHANGED <<retryVars, apiVars, sideVars, blacklistedTags, tab, posts, page,
                    hasMore, selectedPost, navigationHistory, username>>

\* <ErrorBanner onRetry={() => fetchPosts(false)} />
Retry ==
  LET r == fetchPosts(Closure, FALSE, Current)
  IN /\ error # NULL
     /\ page <= MaxPage
     /\ Commit(r)
     /\ delivered' = Nothing
     /\ UNCHANGED <<retryVars, apiVars, sideVars, blacklistedTags, tab, posts, page,
                    hasMore, selectedPost, navigationHistory, username>>

\* goHome: handleTabChange('home'); fetchPosts(true) of the render that is
\* on screen; when the tab changed, the [tab] effect calls the fetchPosts of
\* the next render.
GoHome ==
  LET r0 == fetchPosts(Closure, TRUE, Current)
      c1 == [Closure EXCEPT !.tab = "home", !.loading = r0.loading]
      r1 == IF tab # "home" THEN fetchPosts(c1, TRUE, r0) ELSE r0
  IN /\ CanPush("home")
     /\ Commit(r1)
     /\ tab' = "home"
     /\ navigationHistory' = Pushed("home")
     /\ delivered' = Nothing
     /\ UNCHANGED <<retryVars, apiVars, sideVars, blacklistedTags, posts, page, hasMore,
                    selectedPost, username>>

\* fetchRandomPost up to its await: key 'x' while no post is open, or the
\* random button, which is disabled while loading
Random ==
  /\ ~selectedPost \/ ~loading
  /\ InFlightCount < MaxInFlight
  /\ loading' = TRUE
  /\ inflight' = AddRequest(inflight, RandomRequest)
  /\ delivered' = Nothing
  /\ UNCHANGED <<retryVars, apiVars, sideVars, blacklistedTags, tab, posts, error, page,
                 hasMore, selectedPost, navigationHistory, username>>

\* fetchRandomPost after its await: a post, no post, or a rejection
RandomDone(found) ==
  /\ RandomRequest \in Requests
  /\ inflight' = RemoveRequest(inflight, RandomRequest)
  /\ selectedPost' = (found \/ selectedPost)
  /\ loading' = FALSE
  /\ delivered' = Nothing
  /\ UNCHANGED <<retryVars, apiVars, sideVars, blacklistedTags, tab, posts, error, page,
                 hasMore, navigationHistory, username>>

\* mutant of FeedOk: an empty page only clears hasMore
FeedOkKeepCursor(r, fetched) ==
  /\ r \in Requests /\ r.kind = "feed"
  /\ inflight' = RemoveRequest(inflight, r)
  /\ hasMore' = (Len(fetched) > 0)
  /\ IF fetched = <<>>
       THEN posts' = posts /\ page' = page
       ELSE IF r.reset
              THEN posts' = fetched /\ page' = 2
              ELSE posts' = mergePosts(posts, fetched) /\ page' = page + 1
  /\ loading' = FALSE
  /\ delivered' = Page(r.reset, fetched)
  /\ UNCHANGED <<retryVars, apiVars, sideVars, blacklistedTags, tab, error,
                 selectedPost, navigationHistory, username>>

\* mutant of FeedOk: the page is de-duplicated against the visible posts
FeedOkDedupVisible(r, fetched) ==
  /\ r \in Requests /\ r.kind = "feed"
  /\ inflight' = RemoveRequest(inflight, r)
  /\ hasMore' = (Len(fetched) > 0)
  /\ IF r.reset
       THEN posts' = fetched /\ page' = 2
       ELSE posts' = posts \o filterNew(fetched, Range(visible))
            /\ page' = page + 1
  /\ loading' = FALSE
  /\ delivered' = Page(r.reset, fetched)
  /\ UNCHANGED <<retryVars, apiVars, sideVars, blacklistedTags, tab, error,
                 selectedPost, navigationHistory, username>>

\* fetchPosts after its await, getPosts resolved with the page fetched
FeedOk(r, fetched) ==
  /\ r \in Requests /\ r.kind = "feed"
  /\ inflight' = RemoveRequest(inflight, r)
  /\ hasMore' = (Len(fetched) > 0)
  /\ IF r.reset
       THEN posts' = fetched /\ page' = 2
       ELSE posts' = mergePosts(posts, fetched) /\ page' = page + 1
  /\ loading' = FALSE
  /\ delivered' = Page(r.reset, fetched)
  /\ UNCHANGED <<retryVars, apiVars, sideVars, blacklistedTags, tab, error,
                 selectedPost, navigationHistory, username>>

\* mutant of FeedErr: the failure of an append is surfaced as well
FeedErrAlwaysSurfaced(r, err) ==
  /\ r \in Requests /\ r.kind = "feed"
  /\ inflight' = RemoveRequest(inflight, r)
  /\ error' = parseApiError(err)
  /\ loading' = FALSE
  /\ delivered' = Failure(r.reset, err)
  /\ UNCHANGED <<retryVars, apiVars, sideVars, blacklistedTags, tab, posts, page,
                 hasMore, selectedPost, navigationHistory, username>>

\* mutant of FeedErr: a failure ends the paging as an empty page does
FeedErrStopsPaging(r, err) ==
  /\ r \in Requests /\ r.kind = "feed"
  /\ inflight' = RemoveRequest(inflight, r)
  /\ error' = IF r.reset THEN parseApiError(err) ELSE error
  /\ hasMore' = FALSE
  /\ loading' = FALSE
  /\ delivered' = Failure(r.reset, err)
  /\ UNCHANGED <<retryVars, apiVars, sideVars, blacklistedTags, tab, posts,
                 page, selectedPost, navigationHistory, username>>

\* mutant of FeedErr: no finally block, a failure leaves loading as it is
FeedErrNoFinally(r, err) ==
  /\ r \in Requests /\ r.kind = "feed"
  /\ inflight' = RemoveRequest(inflight, r)
  /\ error' = IF r.reset THEN parseApiError(err) ELSE error
  /\ delivered' = Failure(r.reset, err)
  /\ UNCHANGED <<retryVars, apiVars, sideVars, blacklistedTags, tab, posts,
                 page, hasMore, loading, selectedPost, navigationHistory,
                 username>>

\* fetchPosts after its await, getPosts rejected with err
FeedErr(r, err) ==
  /\ r \in Requests /\ r.kind = "feed"
  /\ inflight' = RemoveRequest(inflight, r)
  /\ error' = IF r.reset THEN parseApiError(err) ELSE error
  /\ loading' = FALSE
  /\ delivered' = Failure(r.reset, err)
  /\ UNCHANGED <<retryVars, apiVars, sideVars, blacklistedTags, tab, posts, page,
                 hasMore, selectedPost, navigationHistory, username>>

\* SettingsModal onUpdate: the active account gains or loses its username
UpdateSettings ==
  /\ \/ /\ username' \in {"", "u"} \ {username}
        /\ UNCHANGED blacklistedTags
     \/ /\ blacklistedTags' \in Blacklists \ {blacklistedTags}
        /\ UNCHANGED username
  /\ delivered' = Nothing
  /\ UNCHANGED <<retryVars, apiVars, sideVars, tab, posts, loading, error, page,
                 hasMore, selectedPost, navigationHistory, inflight>>

\* PostDetail onClose
CloseDetail ==
  /\ selectedPost
  /\ selectedPost' = FALSE
  /\ delivered' = Nothing
  /\ UNCHANGED <<retryVars, apiVars, sideVars, blacklistedTags, tab, posts, loading,
                 error, page, hasMore, navigationHistory, username, inflight>>

\* const fetched = await api.getPosts(...): any outstanding call may settle
\* next, with any page or any error
GetPostsResolves == \E r \in Requests : \E fetched \in Pages : FeedOk(r, fetched)
GetPostsRejects == \E r \in Requests : \E err \in FeedErrors : FeedErr(r, err)

Next ==
  \/ \E t \in Tabs : TabBarClick(t)
  \/ \E t \in Tabs : MobileNavClick(t)
  \/ \E t \in Tabs : KeyboardTab(t)
  \/ BackButton
  \/ Refresh
  \/ Search
  \/ Scroll
  \/ Retry
  \/ GoHome
  \/ Random
  \/ \E found \in BOOLEAN : RandomDone(found)
  \/ GetPostsResolves
  \/ GetPostsRejects
  \/ UpdateSettings
  \/ CloseDetail

(* --------------------------- fetchWithRetry --------------------------- *)
Resolved(v) == [ok |-> TRUE, value |-> v, err |-> NoError]
Rejected(e) == [ok |-> FALSE, value |-> "", err |-> e]

\* What one invocation of the operation may do.
Outcomes ==
  {Resolved(v) : v \in {"a", "b"}}
    \cup {Rejected(e) : e \in {HttpError(404), HttpError(500), HttpError(503),
                               NetworkError, TypeError}}

\* const status = axiosErr.response?.status; shouldRetry = !status || status >= 500
shouldRetry(err) == err.response = 0 \/ err.response >= 500

InitRetry ==
  /\ maxRetries \in 0..MaxGivenRetries
  /\ retries = maxRetries
  /\ delay = InitialDelay
  /\ calls = <<>>
  /\ waits = <<>>
  /\ rpc = "call"
  /\ result = Resolved("")

\* mutant of Attempt: the error of the first attempt is the one thrown
AttemptThrowsFirst(outcome) ==
  /\ rpc = "call"
  /\ calls' = Append(calls, outcome)
  /\ IF outcome.ok
       THEN rpc' = "returned" /\ result' = outcome
       ELSE IF retries <= 0 \/ ~shouldRetry(outcome.err)
              THEN rpc' = "thrown" /\ result' = calls'[1]
              ELSE rpc' = "wait" /\ result' = result
  /\ UNCHANGED <<feedVars, apiVars, sideVars, maxRetries, retries, delay, waits>>

\* try { return await fn(); } catch (error) { ... }
Attempt(outcome) ==
  /\ rpc = "call"
  /\ calls' = Append(calls, outcome)
  /\ IF outcome.ok
       THEN rpc' = "returned" /\ result' = outcome
       ELSE IF retries <= 0 \/ ~shouldRetry(outcome.err)
              THEN rpc' = "thrown" /\ result' = outcome
              ELSE rpc' = "wait" /\ result' = result
  /\ UNCHANGED <<feedVars, apiVars, sideVars, maxRetries, retries, delay, waits>>

\* mutant of Backoff: the delay grows by the initial delay, it is not doubled
BackoffLinear ==
  /\ rpc = "wait"
  /\ waits' = Append(waits, delay)
  /\ retries' = retries - 1
  /\ delay' = delay + InitialDelay
  /\ rpc' = "call"
  /\ UNCHANGED <<feedVars, apiVars, sideVars, maxRetries, calls, result>>

\* await new Promise((r) => setTimeout(r, delay));
\* return fetchWithRetry(fn, retries - 1, delay * 2);
Backoff ==
  /\ rpc = "wait"
  /\ waits' = Append(waits, delay)
  /\ retries' = retries - 1
  /\ delay' = delay * 2
  /\ rpc' = "call"
  /\ UNCHANGED <<feedVars, apiVars, sideVars, maxRetries, calls, result>>

NextRetry ==
  \/ \E outcome \in Outcomes : Attempt(outcome)
  \/ Backoff

(* ----------------------- api and utils functions ---------------------- *)
\* Strings are sequences of pieces: a piece is one character where the code
\* looks at characters (" ", "?", "/", "$", ...) and a run of letters
\* otherwise.
Strings(alphabet, n) == UNION {[1..m -> alphabet] : m \in 0..n}

RECURSIVE trimStart(_)
trimStart(s) ==
  IF s # <<>> /\ Head(s) = " " THEN trimStart(Tail(s)) ELSE s

RECURSIVE trimEnd(_)
trimEnd(s) ==
  IF s # <<>> /\ s[Len(s)] = " " THEN trimEnd(SubSeq(s, 1, Len(s) - 1)) ELSE s

\* String.prototype.trim
trim(s) == trimEnd(trimStart(s))

\* No function has been called yet.
Idle == call.fn = "none"

Returned(v) == [threw |-> FALSE, value |-> v, sent |-> <<>>]
Thrown(e) == [threw |-> TRUE, value |-> e, sent |-> <<>>]

\* mutant of finalQuery: the parts in the order of utils.buildSearchQuery,
\* fav: before rating:s
finalQueryFavFirst(query, t, user, nsfwEnabled) ==
  IF t = "favorites" /\ user = <<>>
    THEN Thrown(ValidationMsg)
  ELSE LET rated == IF ~nsfwEnabled THEN trim(<<"rating", ":", "s", " ">> \o query)
                                     ELSE query
       IN Returned(IF t = "favorites"
                     THEN <<"fav", ":">> \o user \o <<" ">> \o rated
                     ELSE rated)

\* The query fetchPosts hands to api.getPosts:
\*   let finalQuery = query;
\*   if (tab === 'favorites') { ...; finalQuery = `fav:${username} ${query}`; }
\*   if (!settings.nsfwEnabled) finalQuery = `rating:s ${finalQuery}`.trim();
finalQuery(query, t, user, nsfwEnabled) ==
  IF t = "favorites" /\ user = <<>>
    THEN Thrown(ValidationMsg)
  ELSE LET q == IF t = "favorites"
                   THEN <<"fav", ":">> \o user \o <<" ">> \o query
                   ELSE query
       IN Returned(IF ~nsfwEnabled THEN trim(<<"rating", ":", "s", " ">> \o q) ELSE q)

\* What the user may have typed into the search box.
Queries == Strings({"a", " "}, MaxQueryLen)
Usernames == {<<>>, <<"u">>}

\* fetchPosts composes the query for the text typed, the tab and the settings
ComposeQuery ==
  /\ Idle
  /\ \E query \in Queries, t \in Tabs, user \in Usernames,
        nsfwEnabled \in BOOLEAN :
     /\ call' = [fn |-> "finalQuery", query |-> query, tab |-> t,
                 username |-> user, nsfwEnabled |-> nsfwEnabled]
     /\ ret' = finalQuery(query, t, user, nsfwEnabled)
     /\ UNCHANGED <<feedVars, retryVars, sideVars>>

\* APP_CONFIG.api.baseUrl
baseUrl == <<"https", ":", "/", "/", "e621.net">>

\* The characters percent-encoding escapes, with their codes.
Hex == (":" :> "3A") @@ ("/" :> "2F") @@ ("?" :> "3F") @@ ("&" :> "26")
       @@ ("=" :> "3D") @@ ("[" :> "5B") @@ ("]" :> "5D") @@ ("," :> "2C")
       @@ ("$" :> "24") @@ ("+" :> "2B") @@ ("%" :> "25") @@ (" " :> "20")

\* the application/x-www-form-urlencoded serializer of URLSearchParams
formEncodePiece(c) ==
  IF c = " " THEN <<"+">>
  ELSE IF c \in DOMAIN Hex THEN <<"%", Hex[c]>> ELSE <<c>>

RECURSIVE formEncode(_)
formEncode(str) ==
  IF str = <<>> THEN <<>>
  ELSE formEncodePiece(Head(str)) \o formEncode(Tail(str))

encodeURIComponentPiece(c) ==
  IF c \in DOMAIN Hex THEN <<"%", Hex[c]>> ELSE <<c>>

RECURSIVE encodeURI(_)
\* mutant of encodeURIComponent: encodeURI, which leaves : / ? & = as they are
encodeURI(str) ==
  IF str = <<>> THEN <<>>
  ELSE (IF Head(str) \in {"%", " ", "[", "]"} THEN <<"%", Hex[Head(str)]>>
        ELSE <<Head(str)>>) \o encodeURI(Tail(str))

RECURSIVE encodeURIComponent(_)
encodeURIComponent(str) ==
  IF str = <<>> THEN <<>>
  ELSE encodeURIComponentPiece(Head(str)) \o encodeURIComponent(Tail(str))

Param(k, v) == [k |-> k, v |-> v]

RECURSIVE joinParams(_)
\* URLSearchParams.toString(): k=v pairs joined with &
joinParams(ps) ==
  IF ps = <<>> THEN <<>>
  ELSE formEncode(Head(ps).k) \o <<"=">> \o formEncode(Head(ps).v)
         \o (IF Len(ps) > 1 THEN <<"&">> ELSE <<>>) \o joinParams(Tail(ps))

\* targetUrl.toString()
href(origin, endpoint, ps) ==
  origin \o endpoint \o (IF ps = <<>> THEN <<>> ELSE <<"?">> \o joinParams(ps))

\* searchParams of buildApiUrl: the params given, the cache buster, and the
\* credentials when settings.username && settings.apiKey
searchParams(params, settings, now) ==
  params \o <<Param(<<"_cb">>, <<now>>)>>
    \o (IF settings.username # <<>> /\ settings.apiKey # <<>>
          THEN <<Param(<<"login">>, trim(settings.username)),
                 Param(<<"api_key">>, trim(settings.apiKey))>>
          ELSE <<>>)

targetString(endpoint, params, settings, now) ==
  href(baseUrl, endpoint, searchParams(params, settings, now))

\* The first place pattern occurs in str, 0 when it does not occur.
indexOf(str, pattern) ==
  LET at == {i \in 1..(Len(str) + 1) :
               /\ i + Len(pattern) - 1 <= Len(str)
               /\ SubSeq(str, i, i + Len(pattern) - 1) = pattern}
  IN IF at = {} THEN 0 ELSE CHOOSE i \in at : \A j \in at : i <= j

RECURSIVE GetSubstitution(_, _, _, _)
\* The replacement text of String.prototype.replace with a string pattern:
\* $$ is $, $& the match, $` what precedes it and $' what follows it.
GetSubstitution(matched, before, after, replacement) ==
  IF replacement = <<>> THEN <<>>
  ELSE IF Head(replacement) = "$" /\ Len(replacement) > 1
            /\ replacement[2] \in {"$", "&", "`", "'"}
         THEN (CASE replacement[2] = "$" -> <<"$">>
                 [] replacement[2] = "&" -> matched
                 [] replacement[2] = "`" -> before
                 [] replacement[2] = "'" -> after)
                \o GetSubstitution(matched, before, after,
                                   SubSeq(replacement, 3, Len(replacement)))
         ELSE <<Head(replacement)>>
                \o GetSubstitution(matched, before, after, Tail(replacement))

\* str.replace(pattern, replacement), pattern a string
replace(str, pattern, replacement) ==
  LET i == indexOf(str, pattern)
  IN IF i = 0 THEN str
     ELSE LET before == SubSeq(str, 1, i - 1)
              after == SubSeq(str, i + Len(pattern), Len(str))
          IN before \o GetSubstitution(pattern, before, after, replacement)
                    \o after

\* mutant of stripSlash: the proxy URL is used as it is
keepSlash(url) == url

\* proxyUrl.replace(/\/$/, '')
stripSlash(url) ==
  IF url # <<>> /\ url[Len(url)] = "/" THEN SubSeq(url, 1, Len(url) - 1) ELSE url

\* buildApiUrl(endpoint, params, settings), Date.now() read as now
buildApiUrl(endpoint, params, settings, now) ==
  LET targetStr == targetString(endpoint, params, settings, now)
  IN IF ~settings.enableProxy \/ settings.proxyUrl = <<>> THEN targetStr
     ELSE IF includes(settings.proxyUrl, "?")
       THEN settings.proxyUrl \o encodeURIComponent(targetStr)
     ELSE replace(targetStr, baseUrl, stripSlash(settings.proxyUrl))

\* The calls of buildApiUrl the api makes: getPosts, getUser, getUsersByIds
\* and getUserByName.
ApiCalls ==
  {[endpoint |-> <<"/", "posts.json">>,
    params |-> <<Param(<<"tags">>, tags), Param(<<"page">>, <<"1">>),
                 Param(<<"limit">>, <<"20">>)>>] :
     tags \in {<<>>, <<"rating", ":", "s", " ", "a">>}}
  \cup {[endpoint |-> <<"/", "users", "/", "1", ".json">>, params |-> <<>>],
        [endpoint |-> <<"/", "users.json">>,
         params |-> <<Param(<<"search", "[", "id", "]">>, <<"1", ",", "2">>)>>]}

Credentials == Strings({" ", "k"}, MaxCredLen)

Localhost == <<"http", ":", "/", "/", "localhost", ":", "8080">>
PrefixProxies ==
  {<<"https", ":", "/", "/", "corsproxy.io", "/", "?">>,
   <<"https", ":", "/", "/", "proxy.example", "/", "get", "?", "url", "=">>}
HostProxies ==
  {Localhost, Localhost \o <<"/">>, Localhost \o <<"/", "api">>,
   Localhost \o <<"/", "api", "/">>, Localhost \o <<"/", "/">>,
   Localhost \o <<"/", "$", "&">>}
ProxyUrls == {<<>>} \cup PrefixProxies \cup HostProxies

\* Date.now().toString()
Clock == {"1700000000000", "1700000000001"}

ApiSettings ==
  [username : Credentials, apiKey : Credentials,
   enableProxy : BOOLEAN, proxyUrl : ProxyUrls]

\* an api function builds the URL of its request
BuildUrl ==
  /\ Idle
  /\ \E c \in ApiCalls, settings \in ApiSettings, now \in Clock :
     /\ call' = [fn |-> "buildApiUrl", endpoint |-> c.endpoint,
                 params |-> c.params, settings |-> settings, now |-> now]
     /\ ret' = Returned(buildApiUrl(c.endpoint, c.params, settings, now))
     /\ UNCHANGED <<feedVars, retryVars, sideVars>>

\* The tag lists of a post and the blacklists isPostBlacklisted is tried
\* with: tags that differ in case only.
TagLists == {<<>>, <<"wolf">>, <<"Wolf">>}
TaggedPosts ==
  {[id |-> 1, tags |-> t] :
     t \in [general : TagLists, species : TagLists, character : TagLists,
            artist : TagLists, invalid : TagLists, meta : TagLists,
            lore : TagLists]}
TagBlacklists == Strings({"wolf", "Wolf"}, MaxBlacklist)

\* the view asks whether a post is hidden
CheckBlacklist ==
  /\ Idle
  /\ \E post \in TaggedPosts, blacklist \in TagBlacklists :
     /\ call' = [fn |-> "isPostBlacklisted", post |-> post, blacklist |-> blacklist]
     /\ ret' = Returned(isPostBlacklisted(post, blacklist))
     /\ UNCHANGED <<feedVars, retryVars, sideVars>>

(* ------------------------- secondary lookups -------------------------- *)
\* JSON values: null, undefined, arrays and objects. An object is a record
\* with the field kind = "object" next to its own properties.
Null == [kind |-> "null"]
Undefined == [kind |-> "undefined"]
Arr(items) == [kind |-> "array", items |-> items]
EmptyObject == [kind |-> "object"]

\* What http.get did: a response with a body, or a rejection.
Got(data) == [ok |-> TRUE, data |-> data, err |-> NoError]
Failed(err) == [ok |-> FALSE, data |-> Undefined, err |-> err]
Failures == {Failed(NetworkError), Failed(HttpError(404)), Failed(HttpError(500))}

nullish(v) == v.kind \in {"null", "undefined"}
\* v.name for v that is neither null nor undefined
prop(v, name) == IF name \in DOMAIN v THEN v[name] ELSE Undefined
isArray(v) == v.kind = "array"

Request(path, param) == [path |-> path, param |-> param]
Sent(r, request) == [r EXCEPT !.sent = <<request>> \o @]

\* const res = await http.get(url); the value is res.data
httpGet(reply) == IF reply.ok THEN Returned(reply.data) ELSE Thrown(reply.err)

\* mutant of orElse: the catch block throws the error again
rethrow(r, fallback) == r

\* try { r } catch { return fallback; }
orElse(r, fallback) == IF r.threw THEN Returned(fallback) ELSE r

\* data.name || data, which throws a TypeError when data is null
propOrSelf(data, name) ==
  IF nullish(data) THEN Thrown(TypeError)
  ELSE IF ~nullish(prop(data, name)) THEN Returned(prop(data, name))
  ELSE Returned(data)

\* api.searchTags: return res.data
searchTags(query, reply) ==
  Sent(orElse(httpGet(reply), Arr(<<>>)),
       Request("/tags/autocomplete.json", query))

\* api.getComments: return res.data.comments || res.data || []
getComments(postId, reply) ==
  LET res == httpGet(reply)
  IN Sent(orElse(IF res.threw THEN res ELSE propOrSelf(res.value, "comments"),
                 Arr(<<>>)),
          Request("/comments.json", postId))

\* api.getUser: return res.data.user || res.data
getUser(userId, reply) ==
  LET res == httpGet(reply)
  IN Sent(orElse(IF res.threw THEN res ELSE propOrSelf(res.value, "user"),
                 Null),
          Request("/users/id.json", userId))

\* String.prototype.toLowerCase on the pieces names are made of
Lower == ("F" :> "f") @@ ("OO" :> "oo")
toLowerCase(str) ==
  [i \in 1..Len(str) |-> IF str[i] \in DOMAIN Lower THEN Lower[str[i]] ELSE str[i]]

\* Array.isArray(res.data) ? res.data : res.data.users || []
usersOf(data) ==
  IF isArray(data) THEN Returned(data)
  ELSE IF nullish(data) THEN Thrown(TypeError)
  ELSE IF ~nullish(prop(data, "users")) THEN Returned(prop(data, "users"))
  ELSE Returned(Arr(<<>>))

\* mutant of pickUser: the first user of the response
pickFirst(users, name) ==
  IF Len(users) = 0 THEN Returned(Null) ELSE Returned(users[1])

\* if (users.length === 0) return null;
\* const exact = users.find((u) => u.name.toLowerCase() === username.toLowerCase());
\* return exact || users[0];
pickUser(users, name) ==
  LET exact == {i \in 1..Len(users) :
                  toLowerCase(users[i].name) = toLowerCase(name)}
  IN IF Len(users) = 0 THEN Returned(Null)
     ELSE IF exact # {}
       THEN Returned(users[CHOOSE i \in exact : \A j \in exact : i <= j])
     ELSE Returned(users[1])

\* api.getUserByName
getUserByName(name, reply) ==
  LET res == httpGet(reply)
      users == IF res.threw THEN res ELSE usersOf(res.value)
  IN Sent(orElse(IF users.threw THEN users
                 ELSE pickUser(users.value.items, name), Null),
          Request("/users.json", name))

\* mutant of getUsersByIds: the request is sent for an empty id list too
getUsersByIdsAlways(userIds, reply) ==
  LET res == httpGet(reply)
  IN Sent(orElse(IF res.threw THEN res ELSE usersOf(res.value), Arr(<<>>)),
          Request("/users.json", userIds))

\* api.getUsersByIds
getUsersByIds(userIds, reply) ==
  IF Len(userIds) = 0 THEN Returned(Arr(<<>>))
  ELSE LET res == httpGet(reply)
       IN Sent(orElse(IF res.threw THEN res ELSE usersOf(res.value), Arr(<<>>)),
               Request("/users.json", userIds))

RECURSIVE unique(_)
\* [...new Set(arr)]: the elements of arr in the order they first occur
unique(arr) ==
  IF arr = <<>> THEN <<>>
  ELSE LET front == unique(SubSeq(arr, 1, Len(arr) - 1))
       IN IF arr[Len(arr)] \in Range(front) THEN front
          ELSE Append(front, arr[Len(arr)])

\* c.creator || userMap.get(c.creator_id)?.name || `User #${c.creator_id}`,
\* userMap built from users, a later user replacing an earlier one of its id
creatorOf(c, users) ==
  LET known == {i \in 1..Len(users) : users[i].id = c.creator_id}
  IN IF c.creator # <<>> THEN c.creator
     ELSE IF known # {}
       THEN users[CHOOSE i \in known : \A j \in known : j <= i].name
     ELSE <<"User #", c.creator_id>>

\* PostDetail: load() of the effect, cancelled telling whether the effect
\* was cleaned up while getComments was awaited. The value is what
\* setComments was called with, undefined when it was not called.
load(postId, commentsReply, usersReply, cancelled) ==
  LET got == getComments(postId, commentsReply)
      rawComments == got.value
  IN IF cancelled THEN [got EXCEPT !.value = Undefined]
     ELSE IF ~isArray(rawComments) THEN [got EXCEPT !.value = Arr(<<>>)]
     ELSE LET creatorIds ==
                unique([i \in 1..Len(rawComments.items) |->
                          rawComments.items[i].creator_id])
              found == getUsersByIds(creatorIds, usersReply)
              enriched ==
                [i \in 1..Len(rawComments.items) |->
                   [rawComments.items[i] EXCEPT
                      !.creator = creatorOf(rawComments.items[i],
                                            found.value.items)]]
          IN [threw |-> FALSE, value |-> Arr(enriched),
              sent |-> got.sent \o found.sent]

(* the arguments and the replies the lookups are tried with *)
User(id, name) == [kind |-> "object", id |-> id, name |-> name]
Users == {User(1, <<"F", "oo">>), User(2, <<"f", "oo">>),
          User(1, <<"f", "oo", "bar">>), User(2, <<"F", "OO">>)}
UserLists == Strings(Users, MaxListLen)
Wrapped(name, v) == [kind |-> "object"] @@ (name :> v)
UsersReplies ==
  Failures \cup {Got(Null), Got(EmptyObject)}
    \cup {Got(Arr(l)) : l \in UserLists}
    \cup {Got(Wrapped("users", Arr(l))) : l \in UserLists}
UserReplies ==
  Failures \cup {Got(Null)} \cup {Got(u) : u \in Users}
    \cup {Got(Wrapped("user", u)) : u \in Users}
QueriedNames == {<<"f", "oo">>, <<"F", "oo">>, <<"bar">>}
UserIds == {1, 2}

PostComment(creatorId, creator) ==
  [kind |-> "object", creator_id |-> creatorId, creator |-> creator]
Comments == {PostComment(id, c) : id \in UserIds, c \in {<<>>, <<"ann">>}}
CommentLists == Strings(Comments, MaxListLen)
CommentsReplies ==
  Failures \cup {Got(Null), Got(EmptyObject)}
    \cup {Got(Arr(l)) : l \in CommentLists}
    \cup {Got(Wrapped("comments", Arr(l))) : l \in CommentLists}
TagsReplies == Failures \cup {Got(Arr(l)) : l \in Strings({"wolf"}, MaxListLen)}

Called(fn, arg, reply) == [fn |-> fn, arg |-> arg, reply |-> reply]

\* the autocomplete effect of App
SearchTags ==
  /\ Idle
  /\ \E query \in {<<"wol">>}, reply \in TagsReplies :
     /\ call' = Called("searchTags", query, reply)
     /\ ret' = searchTags(query, reply)
     /\ UNCHANGED <<feedVars, retryVars, sideVars>>

\* PostDetail.load
GetComments ==
  /\ Idle
  /\ \E postId \in {1}, reply \in CommentsReplies :
     /\ call' = Called("getComments", postId, reply)
     /\ ret' = getComments(postId, reply)
     /\ UNCHANGED <<feedVars, retryVars, sideVars>>

\* the effect of PostDetail, for the uploader
GetUser ==
  /\ Idle
  /\ \E userId \in UserIds, reply \in UserReplies :
     /\ call' = Called("getUser", userId, reply)
     /\ ret' = getUser(userId, reply)
     /\ UNCHANGED <<feedVars, retryVars, sideVars>>

\* the account settings look the user up
GetUserByName ==
  /\ Idle
  /\ \E name \in QueriedNames, reply \in UsersReplies :
     /\ call' = Called("getUserByName", name, reply)
     /\ ret' = getUserByName(name, reply)
     /\ UNCHANGED <<feedVars, retryVars, sideVars>>

\* PostDetail.load, for the creators of the comments
GetUsersByIds ==
  /\ Idle
  /\ \E userIds \in Strings(UserIds, MaxListLen), reply \in UsersReplies :
     /\ call' = Called("getUsersByIds", userIds, reply)
     /\ ret' = getUsersByIds(userIds, reply)
     /\ UNCHANGED <<feedVars, retryVars, sideVars>>

\* a post is opened: the effect of PostDetail runs load()
Load ==
  /\ Idle
  /\ \E commentsReply \in CommentsReplies, usersReply \in UsersReplies,
        cancelled \in BOOLEAN :
     /\ call' = [fn |-> "load", reply |-> commentsReply, usersReply |-> usersReply,
                 cancelled |-> cancelled]
     /\ ret' = load(1, commentsReply, usersReply, cancelled)
     /\ UNCHANGED <<feedVars, retryVars, sideVars>>

\* One call of one function of the api and utils modules, with any arguments.
InitApi ==
  /\ call = [fn |-> "none"]
  /\ ret = Returned(<<>>)

(* useSettings: the settings as they are read from localStorage *)
\* createDefaultSettings() of the multi-account Settings: no account, none
\* active
createDefaultSettings ==
  [username |-> <<>>, apiKey |-> <<>>, blacklistedTags |-> <<>>,
   accounts |-> <<>>, activeAccountId |-> NULL]

\* the account the migration creates from the flat credentials
MigratedAccount(id, parsed) ==
  [id |-> id, name |-> parsed.username, username |-> parsed.username,
   apiKey |-> parsed.apiKey, hostUrl |-> "https://e621.net"]

\* localStorage.getItem(...): null, a text JSON.parse throws on, or the
\* text of an object, given by its properties
NoItem == [item |-> FALSE, json |-> FALSE, parsed |-> << >>]
Garbage == [item |-> TRUE, json |-> FALSE, parsed |-> << >>]
Blob(parsed) == [item |-> TRUE, json |-> TRUE, parsed |-> parsed]

\* Array.isArray(parsed.blacklistedTags) ? parsed.blacklistedTags : defaults...
blacklistOf(parsed, defaults) ==
  IF "blacklistedTags" \in DOMAIN parsed THEN parsed.blacklistedTags
  ELSE defaults.blacklistedTags

\* the migration that makes the account and forgets to make it active
migrateInactive(parsed, defaults, uuid) ==
  LET migrated == [accounts |-> <<>>, activeAccountId |-> NULL,
                   blacklistedTags |-> blacklistOf(parsed, defaults)]
                    @@ parsed @@ defaults
  IN IF parsed.username # <<>> /\ parsed.apiKey # <<>>
       THEN [migrated EXCEPT !.accounts = <<MigratedAccount(uuid, parsed)>>]
       ELSE migrated

\* the migration branch: { ...defaults, ...parsed, accounts: [],
\* activeAccountId: null, blacklistedTags }, then the account made of the
\* flat credentials when both are truthy
migrate(parsed, defaults, uuid) ==
  LET migrated == [accounts |-> <<>>, activeAccountId |-> NULL,
                   blacklistedTags |-> blacklistOf(parsed, defaults)]
                    @@ parsed @@ defaults
  IN IF parsed.username # <<>> /\ parsed.apiKey # <<>>
       THEN [migrated EXCEPT !.accounts = <<MigratedAccount(uuid, parsed)>>,
                             !.activeAccountId = uuid]
       ELSE migrated

\* the initializer of useState in useSettings; uuid is what
\* crypto.randomUUID() returns when it is called
loadSettings(stored, uuid) ==
  LET defaults == createDefaultSettings
      parsed == stored.parsed
  IN IF ~stored.item THEN defaults
     ELSE IF ~stored.json THEN defaults
     ELSE IF "username" \in DOMAIN parsed /\ "accounts" \notin DOMAIN parsed
       THEN migrate(parsed, defaults, uuid)
     ELSE [accounts |-> IF "accounts" \in DOMAIN parsed THEN parsed.accounts
                        ELSE defaults.accounts,
           blacklistedTags |-> blacklistOf(parsed, defaults)]
            @@ parsed @@ defaults

Uuids == {"id1", "id2"}
\* What the single-account version of the application stored.
LegacyBlobs ==
  {[username |-> u, apiKey |-> k, blacklistedTags |-> b] :
     u \in Credentials, k \in Credentials, b \in Blacklists}
\* What the multi-account version stores: JSON.stringify(settings).
SavedBlobs ==
  {createDefaultSettings,
   [createDefaultSettings EXCEPT
      !.accounts = <<[id |-> "id1", name |-> <<"k">>, username |-> <<"k">>,
                      apiKey |-> <<"k", "k">>, hostUrl |-> "https://e621.net"]>>,
      !.activeAccountId = "id1"]}
StoredItems ==
  {NoItem, Garbage} \cup {Blob(parsed) : parsed \in LegacyBlobs \cup SavedBlobs}

\* useSettings mounts
LoadSettings ==
  /\ Idle
  /\ \E stored \in StoredItems, uuid \in Uuids :
     /\ call' = [fn |-> "loadSettings", stored |-> stored, uuid |-> uuid]
     /\ ret' = Returned(loadSettings(stored, uuid))
     /\ UNCHANGED <<feedVars, retryVars, sideVars>>

\* What the catch block of fetchPosts can hand to parseApiError: an
\* AxiosError (an Error) with or without a response, whose request is set
\* whenever a response came, or anything else that was thrown, an Error or
\* not, which carries neither response nor request.
StatusCodes == {401, 403, 404, 500}
StatusTexts == {"", "Forbidden", "Not Found"}
ErrorMessages == {"Network Error", "canceled"}
ApiErrors ==
  {e \in [axios : BOOLEAN, response : StatusCodes \cup {0},
          statusText : StatusTexts, request : BOOLEAN, isError : BOOLEAN,
          message : ErrorMessages] :
     /\ e.axios => e.isError
     /\ e.response # 0 => e.axios /\ e.request
     /\ e.response = 0 => e.statusText = ""
     /\ e.request => e.axios}

\* catch (err) of fetchPosts
ParseApiError ==
  /\ Idle
  /\ \E err \in ApiErrors :
     /\ call' = Called("parseApiError", err, Null)
     /\ ret' = Returned(parseApiError(err))
     /\ UNCHANGED <<feedVars, retryVars, sideVars>>

NextApi ==
  \/ ComposeQuery
  \/ BuildUrl
  \/ CheckBlacklist
  \/ SearchTags
  \/ GetComments
  \/ GetUser
  \/ GetUserByName
  \/ GetUsersByIds
  \/ Load
  \/ ParseApiError
  \/ LoadSettings

(* ---------------------------- autocomplete ---------------------------- *)
\* The text of the search input as debouncedQuery.split(' ') sees it: the
\* words between single spaces, '' being the one empty word.
Texts == {<<"">>, <<"wo">>, <<"wolf">>, <<"fox">>, <<"fox", "wo">>,
          <<"wolf", "fox">>, <<"wolf", "">>}

RECURSIVE length(_)
length(text) ==
  IF Len(text) = 1 THEN Len(text[1])
  ELSE Len(text[1]) + 1 + length(Tail(text))

\* debouncedQuery.split(' ').pop() ?? ''
lastTag(text) == text[Len(text)]

\* What /tags/autocomplete.json lists for a tag prefix.
TagsFor(name) ==
  CASE name = "wolf" -> <<"wolf", "wolf_girl">>
    [] name = "fox" -> <<"fox">>
    [] OTHER -> <<>>

\* What api.searchTags resolves with: res.data, or [] when the request failed.
SearchReplies(name) == {TagsFor(name), <<>>}

\* The autocomplete effect, run after a render in which debouncedQuery or
\* showSuggestions changed.
Autocomplete(dq, show) ==
  IF length(dq) < MinQueryLength \/ ~show \/ tab # "home"
    THEN /\ suggestions' = <<>>
         /\ UNCHANGED <<issued, pending>>
    ELSE IF Len(lastTag(dq)) < MinQueryLength
           THEN UNCHANGED <<suggestions, issued, pending>>
           ELSE /\ Len(issued) < MaxIssued
                /\ issued' = Append(issued, lastTag(dq))
                /\ pending' = pending \cup {Len(issued) + 1}
                /\ UNCHANGED suggestions

InitAuto ==
  /\ queryText = <<"">> /\ debouncedQuery = <<"">>
  /\ showSuggestions = FALSE /\ suggestions = <<>>
  /\ issued = <<>> /\ pending = {}

\* onChange of the search input
InputChange ==
  \E text \in Texts :
    /\ text # queryText
    /\ queryText' = text
    /\ showSuggestions' = TRUE
    /\ IF showSuggestions THEN UNCHANGED <<suggestions, issued, pending>>
                          ELSE Autocomplete(debouncedQuery, TRUE)
    /\ UNCHANGED <<feedVars, retryVars, apiVars, detailVars, accountVars, debouncedQuery>>

\* the timer of useDebounce fires: setDebounced(value)
DebounceTimer ==
  /\ debouncedQuery # queryText
  /\ debouncedQuery' = queryText
  /\ Autocomplete(queryText, showSuggestions)
  /\ UNCHANGED <<feedVars, retryVars, apiVars, detailVars, accountVars, queryText, showSuggestions>>

\* the timer of onBlur fires: setShowSuggestions(false)
BlurTimer ==
  /\ showSuggestions
  /\ showSuggestions' = FALSE
  /\ Autocomplete(debouncedQuery, FALSE)
  /\ UNCHANGED <<feedVars, retryVars, apiVars, detailVars, accountVars, queryText, debouncedQuery>>

\* handleTagClick: the last word becomes the tag clicked, followed by a space
handleTagClick ==
  /\ showSuggestions
  /\ \E i \in 1..Len(suggestions) :
       queryText' = SubSeq(queryText, 1, Len(queryText) - 1)
                      \o <<suggestions[i], "">>
  /\ suggestions' = <<>>
  /\ UNCHANGED <<feedVars, retryVars, apiVars, detailVars, accountVars, debouncedQuery,
                 showSuggestions, issued, pending>>

\* the sequence-numbered variant: a response is shown only when no later
\* call was issued
SearchTagsSettlesLatestOnly ==
  \E i \in pending :
    /\ pending' = pending \ {i}
    /\ \E reply \in SearchReplies(issued[i]) :
         suggestions' = IF i = Len(issued) THEN reply ELSE suggestions
    /\ UNCHANGED <<feedVars, retryVars, apiVars, detailVars, accountVars, queryText, debouncedQuery,
                   showSuggestions, issued>>

\* api.searchTags(settings, lastTag).then(setSuggestions): any call still
\* pending may settle next
SearchTagsSettles ==
  \E i \in pending :
    /\ pending' = pending \ {i}
    /\ \E reply \in SearchReplies(issued[i]) : suggestions' = reply
    /\ UNCHANGED <<feedVars, retryVars, apiVars, detailVars, accountVars, queryText, debouncedQuery,
                   showSuggestions, issued>>

NextAuto ==
  \/ InputChange
  \/ DebounceTimer
  \/ BlurTimer
  \/ handleTagClick
  \/ SearchTagsSettles

(* ----------------------------- post detail ---------------------------- *)
DetailPosts == 1..MaxId
Unknown == <<"Unknown">>

\* What the three lookups of a run may be answered with.
DetailCommentsReplies ==
  {Failed(NetworkError), Got(Null), Got(Arr(<<>>)),
   Got(Arr(<<PostComment(1, <<>>)>>)),
   Got(Wrapped("comments", Arr(<<PostComment(2, <<"ann">>)>>)))}
DetailUsersReplies ==
  {Failed(NetworkError), Got(Arr(<<User(1, <<"F", "oo">>)>>))}
UploaderReplies ==
  {Failed(NetworkError), Got(Null), Got(User(2, <<"f", "oo">>))}

\* One run of the effect: load() has called setLoadingComments(true) and
\* awaits api.getComments, and api.getUser is pending. A stage or uploader
\* of "dropped" tells that the response came after the cleanup.
NewRun(post) ==
  [post |-> post, cancelled |-> FALSE, stage |-> "comments",
   commentsReply |-> Got(Null), uploader |-> "pending",
   sent |-> <<"getComments", "getUser">>]

\* return () => { cancelled = true; } of the run that is current, the last
Cleanup(rs) ==
  IF rs = <<>> THEN rs ELSE [rs EXCEPT ![Len(rs)].cancelled = TRUE]

InitDetail ==
  /\ detailPost = 0 /\ comments = <<>> /\ loadingComments = FALSE
  /\ uploaderName = Unknown /\ runs = <<>>

\* setSelectedPost(post) with no post open: PostDetail mounts
OpenPost ==
  /\ detailPost = 0
  /\ Len(runs) < MaxRuns
  /\ \E post \in DetailPosts :
       /\ detailPost' = post
       /\ runs' = Append(runs, NewRun(post))
  /\ comments' = <<>>
  /\ loadingComments' = TRUE
  /\ uploaderName' = Unknown
  /\ UNCHANGED <<feedVars, retryVars, apiVars, autoVars, accountVars>>

\* post.id, post.uploader_id or settings changes under the open PostDetail
\* (a random post arrives, a setting is updated): cleanup, then a new run
RerunEffect ==
  /\ detailPost # 0
  /\ Len(runs) < MaxRuns
  /\ \E post \in DetailPosts :
       /\ detailPost' = post
       /\ runs' = Append(Cleanup(runs), NewRun(post))
  /\ loadingComments' = TRUE
  /\ UNCHANGED <<feedVars, retryVars, apiVars, autoVars, accountVars, comments,
                 uploaderName>>

\* onClose, Escape or the back button: PostDetail unmounts, its state is gone
ClosePost ==
  /\ detailPost # 0
  /\ detailPost' = 0
  /\ runs' = Cleanup(runs)
  /\ comments' = <<>>
  /\ loadingComments' = FALSE
  /\ uploaderName' = Unknown
  /\ UNCHANGED <<feedVars, retryVars, apiVars, autoVars, accountVars>>

\* load() after await api.getComments: a cancelled run returns; a response
\* that is no array ends in the catch block; with no creator ids
\* getUsersByIds sends nothing and load finishes; otherwise it sends the
\* batch request and waits for it
CommentsArrive ==
  \E i \in 1..Len(runs), reply \in DetailCommentsReplies :
    LET run == runs[i]
        rawComments == getComments(run.post, reply).value
        alone == load(run.post, reply, Got(Null), FALSE)
    IN /\ run.stage = "comments"
       /\ IF run.cancelled
            THEN /\ runs' = [runs EXCEPT ![i].stage = "dropped"]
                 /\ UNCHANGED <<comments, loadingComments>>
            ELSE IF Len(alone.sent) = 1
              THEN /\ runs' = [runs EXCEPT ![i].stage = "done"]
                   /\ comments' = alone.value.items
                   /\ loadingComments' = FALSE
              ELSE /\ runs' = [runs EXCEPT ![i].stage = "users",
                                           ![i].commentsReply = reply,
                                           ![i].sent = Append(@, "getUsersByIds")]
                   /\ UNCHANGED <<comments, loadingComments>>
       /\ UNCHANGED <<feedVars, retryVars, apiVars, autoVars, accountVars, detailPost,
                      uploaderName>>

\* the effect without its cancelled flag: every response sets the state
UsersArriveUnguarded ==
  \E i \in 1..Len(runs), reply \in DetailUsersReplies :
    LET run == runs[i]
    IN /\ run.stage = "users"
       /\ runs' = [runs EXCEPT ![i].stage =
                                 IF run.cancelled THEN "dropped" ELSE "done"]
       /\ comments' = load(run.post, run.commentsReply, reply,
                           FALSE).value.items
       /\ loadingComments' = FALSE
       /\ UNCHANGED <<feedVars, retryVars, apiVars, autoVars, accountVars, detailPost,
                      uploaderName>>

\* load() after await api.getUsersByIds: if (!cancelled) setComments(enriched),
\* finally if (!cancelled) setLoadingComments(false)
UsersArrive ==
  \E i \in 1..Len(runs), reply \in DetailUsersReplies :
    LET run == runs[i]
    IN /\ run.stage = "users"
       /\ runs' = [runs EXCEPT ![i].stage =
                                 IF run.cancelled THEN "dropped" ELSE "done"]
       /\ IF run.cancelled
            THEN UNCHANGED <<comments, loadingComments>>
            ELSE /\ comments' = load(run.post, run.commentsReply, reply,
                                     FALSE).value.items
                 /\ loadingComments' = FALSE
       /\ UNCHANGED <<feedVars, retryVars, apiVars, autoVars, accountVars, detailPost,
                      uploaderName>>

\* api.getUser(...).then((user) => { if (user && !cancelled) ... })
UploaderArrives ==
  \E i \in 1..Len(runs), reply \in UploaderReplies :
    LET run == runs[i]
        user == getUser(run.post, reply).value
    IN /\ run.uploader = "pending"
       /\ runs' = [runs EXCEPT ![i].uploader =
                                 IF run.cancelled THEN "dropped" ELSE "done"]
       /\ uploaderName' = IF ~nullish(user) /\ ~run.cancelled
                            THEN prop(user, "name") ELSE uploaderName
       /\ UNCHANGED <<feedVars, retryVars, apiVars, autoVars, accountVars, detailPost,
                      comments, loadingComments>>

NextDetail ==
  \/ OpenPost
  \/ RerunEffect
  \/ ClosePost
  \/ CommentsArrive
  \/ UsersArrive
  \/ UploaderArrives

(* ------------------------------ accounts ------------------------------ *)
AccountIds == {"id1", "id2", "id3"}

\* createAccount(): an empty account with an id of its own
createAccount(id) ==
  [id |-> id, name |-> <<>>, username |-> <<>>, apiKey |-> <<>>,
   hostUrl |-> "https://e621.net"]

\* settings.accounts.findIndex((a) => a.id === id), 0 for -1
findIndex(list, id) ==
  IF \E i \in 1..Len(list) : list[i].id = id
    THEN CHOOSE i \in 1..Len(list) :
           list[i].id = id /\ \A j \in 1..(i - 1) : list[j].id # id
    ELSE 0

\* settings.accounts.filter((a) => a.id !== accountId)
RECURSIVE withoutAccount(_, _)
withoutAccount(list, id) ==
  IF list = <<>> THEN <<>>
  ELSE IF Head(list).id = id THEN withoutAccount(Tail(list), id)
  ELSE <<Head(list)>> \o withoutAccount(Tail(list), id)

IdsOf(list) == {list[i].id : i \in 1..Len(list)}

\* useSettings mounts: the settings are those loadSettings reads
InitAccounts ==
  /\ \E stored \in StoredItems, uuid \in Uuids :
       LET loaded == loadSettings(stored, uuid)
       IN /\ accounts = loaded.accounts
          /\ activeAccountId = loaded.activeAccountId
          /\ local = [accounts |-> loaded.accounts,
                      activeAccountId |-> loaded.activeAccountId]
          /\ issuedIds = IdsOf(loaded.accounts)
  /\ isOpen = FALSE
  /\ editingAccount = <<>>

\* setSettingsOpen(true): the effect of SettingsModal calls setLocal(settings)
OpenSettings ==
  /\ ~isOpen
  /\ isOpen' = TRUE
  /\ local' = [accounts |-> accounts, activeAccountId |-> activeAccountId]
  /\ UNCHANGED <<feedVars, retryVars, apiVars, autoVars, detailVars,
                 accounts, activeAccountId, editingAccount, issuedIds>>

\* onClose without saving: the modal and its AccountTab are unmounted
CloseSettings ==
  /\ isOpen
  /\ isOpen' = FALSE
  /\ editingAccount' = <<>>
  /\ UNCHANGED <<feedVars, retryVars, apiVars, autoVars, detailVars,
                 accounts, activeAccountId, local, issuedIds>>

\* handleSave of SettingsModal: onUpdate(local); onClose()
SaveSettings ==
  /\ isOpen
  /\ accounts' = local.accounts
  /\ activeAccountId' = local.activeAccountId
  /\ isOpen' = FALSE
  /\ editingAccount' = <<>>
  /\ UNCHANGED <<feedVars, retryVars, apiVars, autoVars, detailVars, local,
                 issuedIds>>

\* the page is loaded again: the settings are read back from what the effect
\* of useSettings stored, JSON.stringify(settings), and the modal starts
\* closed with them as its copy
Reload ==
  /\ \E uuid \in Uuids :
       LET saved == [createDefaultSettings EXCEPT
                       !.accounts = accounts,
                       !.activeAccountId = activeAccountId]
           loaded == loadSettings(Blob(saved), uuid)
       IN /\ accounts' = loaded.accounts
          /\ activeAccountId' = loaded.activeAccountId
          /\ local' = [accounts |-> loaded.accounts,
                       activeAccountId |-> loaded.activeAccountId]
  /\ isOpen' = FALSE
  /\ editingAccount' = <<>>
  /\ UNCHANGED <<feedVars, retryVars, apiVars, autoVars, detailVars,
                 issuedIds>>

\* handleAddAccount
handleAddAccount ==
  /\ isOpen /\ editingAccount = <<>>
  /\ \E id \in AccountIds \ issuedIds :
       /\ editingAccount' = <<createAccount(id)>>
       /\ issuedIds' = issuedIds \cup {id}
  /\ UNCHANGED <<feedVars, retryVars, apiVars, autoVars, detailVars,
                 accounts, activeAccountId, isOpen, local>>

\* handleEditAccount
handleEditAccount ==
  /\ isOpen /\ editingAccount = <<>>
  /\ \E i \in 1..Len(local.accounts) : editingAccount' = <<local.accounts[i]>>
  /\ UNCHANGED <<feedVars, retryVars, apiVars, autoVars, detailVars,
                 accounts, activeAccountId, isOpen, local, issuedIds>>

\* onChange of the username field of the account being edited
EditUsername ==
  /\ isOpen /\ editingAccount # <<>>
  /\ \E name \in {<<>>, <<"k">>} \ {editingAccount[1].username} :
       editingAccount' = <<[editingAccount[1] EXCEPT !.username = name]>>
  /\ UNCHANGED <<feedVars, retryVars, apiVars, autoVars, detailVars,
                 accounts, activeAccountId, isOpen, local, issuedIds>>

\* the Back button of the edit form: setEditingAccount(null)
CancelEdit ==
  /\ isOpen /\ editingAccount # <<>>
  /\ editingAccount' = <<>>
  /\ UNCHANGED <<feedVars, retryVars, apiVars, autoVars, detailVars,
                 accounts, activeAccountId, isOpen, local, issuedIds>>

\* handleSaveAccount
handleSaveAccount ==
  /\ isOpen /\ editingAccount # <<>>
  /\ LET edited == editingAccount[1]
         existingIndex == findIndex(local.accounts, edited.id)
         newAccounts == IF existingIndex > 0
                          THEN [local.accounts EXCEPT ![existingIndex] = edited]
                          ELSE Append(local.accounts, edited)
     IN /\ Len(newAccounts) <= MaxAccounts
        /\ local' = [accounts |-> newAccounts,
                     activeAccountId |->
                       IF local.activeAccountId # NULL
                         THEN local.activeAccountId ELSE edited.id]
  /\ editingAccount' = <<>>
  /\ UNCHANGED <<feedVars, retryVars, apiVars, autoVars, detailVars,
                 accounts, activeAccountId, isOpen, issuedIds>>

\* handleDeleteAccount that leaves the active id as it is
handleDeleteAccountKeepActive ==
  /\ isOpen /\ editingAccount = <<>>
  /\ \E i \in 1..Len(local.accounts) :
       local' = [local EXCEPT
                   !.accounts = withoutAccount(local.accounts,
                                               local.accounts[i].id)]
  /\ UNCHANGED <<feedVars, retryVars, apiVars, autoVars, detailVars,
                 accounts, activeAccountId, isOpen, editingAccount, issuedIds>>

\* handleDeleteAccount
handleDeleteAccount ==
  /\ isOpen /\ editingAccount = <<>>
  /\ \E i \in 1..Len(local.accounts) :
       LET accountId == local.accounts[i].id
           newAccounts == withoutAccount(local.accounts, accountId)
       IN local' = [accounts |-> newAccounts,
                    activeAccountId |->
                      IF local.activeAccountId = accountId
                        THEN IF newAccounts # <<>> THEN newAccounts[1].id
                             ELSE NULL
                        ELSE local.activeAccountId]
  /\ UNCHANGED <<feedVars, retryVars, apiVars, autoVars, detailVars,
                 accounts, activeAccountId, isOpen, editingAccount, issuedIds>>

\* handleSetActive, offered for the accounts listed
handleSetActive ==
  /\ isOpen /\ editingAccount = <<>>
  /\ \E i \in 1..Len(local.accounts) :
       /\ local.accounts[i].id # local.activeAccountId
       /\ local' = [local EXCEPT !.activeAccountId = local.accounts[i].id]
  /\ UNCHANGED <<feedVars, retryVars, apiVars, autoVars, detailVars,
                 accounts, activeAccountId, isOpen, editingAccount, issuedIds>>

NextAccounts ==
  \/ OpenSettings
  \/ CloseSettings
  \/ SaveSettings
  \/ Reload
  \/ handleAddAccount
  \/ handleEditAccount
  \/ EditUsername
  \/ CancelEdit
  \/ handleSaveAccount
  \/ handleDeleteAccount
  \/ handleSetActive

(* --------------------------- specifications --------------------------- *)
\* No stored settings, the modal never opened.
AccountsIdle ==
  /\ accounts = <<>> /\ activeAccountId = NULL /\ isOpen = FALSE
  /\ local = [accounts |-> <<>>, activeAccountId |-> NULL]
  /\ editingAccount = <<>> /\ issuedIds = {}

AutoIdle == InitAuto

DetailIdle == InitDetail

SideIdle == AutoIdle /\ DetailIdle /\ AccountsIdle

RetryIdle ==
  /\ maxRetries = 0 /\ retries = 0 /\ delay = InitialDelay
  /\ calls = <<>> /\ waits = <<>> /\ rpc = "returned"
  /\ result = Resolved("")

FeedIdle ==
  /\ tab = "home" /\ posts = <<>> /\ loading = FALSE /\ error = NULL
  /\ page = 1 /\ hasMore = TRUE /\ selectedPost = FALSE
  /\ navigationHistory = <<>> /\ username = "" /\ blacklistedTags = <<>>
  /\ inflight = EmptyBag
  /\ delivered = Nothing

ApiIdle == InitApi

Init == InitFeed /\ RetryIdle /\ ApiIdle /\ SideIdle

\* The feed controller.
Spec == Init /\ [][Next]_vars

\* The feed controller with its requests settling: api.getPosts gives up
\* after the timeout of the http client and a bounded number of retries, so
\* every outstanding call resolves or rejects.
\* Whether loading is released does not depend on what a page holds: the
\* server answers with an empty page or a page of one post.
SettlingPages == {<<>>, <<1>>}
GetPostsResolvesShort ==
  \E r \in Requests : \E fetched \in SettlingPages : FeedOk(r, fetched)

Settle ==
  \/ GetPostsResolvesShort
  \/ GetPostsRejects
  \/ \E found \in BOOLEAN : RandomDone(found)

NextSettling ==
  \/ \E t \in Tabs : TabBarClick(t)
  \/ \E t \in Tabs : MobileNavClick(t)
  \/ \E t \in Tabs : KeyboardTab(t)
  \/ BackButton
  \/ Refresh
  \/ Search
  \/ Scroll
  \/ Retry
  \/ GoHome
  \/ Random
  \/ \E found \in BOOLEAN : RandomDone(found)
  \/ GetPostsResolvesShort
  \/ GetPostsRejects
  \/ UpdateSettings
  \/ CloseDetail

SpecSettling == Init /\ [][NextSettling]_vars /\ WF_vars(Settle)

\* One call of fetchWithRetry. Every invocation of the operation settles
\* (the http client times out) and every timer fires.
InitCall == InitRetry /\ FeedIdle /\ ApiIdle /\ SideIdle

SpecRetry == InitCall /\ [][NextRetry]_vars /\ WF_vars(NextRetry)

\* The functions of the api and utils modules, applied to any arguments.
InitLib == InitApi /\ FeedIdle /\ RetryIdle /\ SideIdle

SpecApi == InitLib /\ [][NextApi]_vars

\* The search input of App and its autocomplete, the feed left alone on the
\* home tab.
InitInput ==
  InitAuto /\ FeedIdle /\ RetryIdle /\ ApiIdle /\ DetailIdle /\ AccountsIdle

SpecAuto == InitInput /\ [][NextAuto]_vars

\* PostDetail and the effect that loads comments, authors and uploader.
InitView ==
  InitDetail /\ FeedIdle /\ RetryIdle /\ ApiIdle /\ AutoIdle /\ AccountsIdle

SpecDetail == InitView /\ [][NextDetail]_vars

\* The settings as loaded and the account operations of the settings modal.
InitStored ==
  InitAccounts /\ FeedIdle /\ RetryIdle /\ ApiIdle /\ AutoIdle /\ DetailIdle

SpecAccounts == InitStored /\ [][NextAccounts]_vars

(* ------------------------------- claims ------------------------------- *)
NoDup(s) == \A i, j \in 1..Len(s) : i # j => s[i] # s[j]

\* C1 as stated: in every reachable state the accumulated list holds no two
\* entries with the same id, whatever pages the server returns.
C1_NoDuplicateIds == NoDup(posts)

\* C1 amended: a fetch that delivers a page without a repeated id to a list
\* without duplicates leaves a list without duplicates, however the page
\* overlaps the list.
C1_DistinctPagesKeepListDistinct ==
  (delivered.ok /\ NoDup(delivered.fetched) /\ NoDup(delivered.prevPosts))
    => NoDup(posts)

\* An append has just merged a duplicate-free page that overlaps the list
\* and also brings a new post.
C1_Witness ==
  /\ delivered.ok /\ ~delivered.reset
  /\ NoDup(delivered.fetched) /\ NoDup(delivered.prevPosts)
  /\ Range(delivered.fetched) \cap Range(delivered.prevPosts) # {}
  /\ Range(delivered.fetched) \ Range(delivered.prevPosts) # {}
  /\ NoDup(posts)

\* The positions of the fetched page whose post is not in the list so far.
NewAt(prev, fetched) == {i \in 1..Len(fetched) : fetched[i] \notin Range(prev)}
\* The k-th smallest of them.
Kth(idx, k) == CHOOSE i \in idx : Cardinality({j \in idx : j <= i}) = k

\* C2: a successful non-empty append leaves the previous list followed by
\* exactly the posts of the page that were not in it, both in their order.
C2_AppendMergesNewPostsInOrder ==
  (delivered.ok /\ ~delivered.reset /\ delivered.fetched # <<>>) =>
    LET prev == delivered.prevPosts
        idx == NewAt(prev, delivered.fetched)
    IN /\ Len(posts) = Len(prev) + Cardinality(idx)
       /\ \A i \in 1..Len(prev) : posts[i] = prev[i]
       /\ \A k \in 1..Cardinality(idx) :
            posts[Len(prev) + k] = delivered.fetched[Kth(idx, k)]

\* The list [1] has just been merged with the page [1,2] into [1,2].
C2_Witness ==
  /\ delivered.ok /\ ~delivered.reset
  /\ delivered.prevPosts = <<1>>
  /\ delivered.fetched = <<1, 2>>
  /\ posts = <<1, 2>>

\* C3 as stated: an empty page sets hasMore to false and leaves the cursor
\* and the list as they were; a non-empty reset sets the cursor to 2.
C3_EmptyPageLeavesCursorAndList ==
  /\ (delivered.ok /\ delivered.fetched = <<>>) =>
       (~hasMore /\ page = delivered.prevPage /\ posts = delivered.prevPosts)
  /\ (delivered.ok /\ delivered.reset /\ delivered.fetched # <<>>) => page = 2

\* C3 amended: every successful fetch moves the cursor, an append by 1 and a
\* reset to 2, empty page or not; hasMore becomes whether the page was
\* non-empty; an empty append leaves the list, an empty reset empties it.
C3_EverySuccessMovesCursor ==
  delivered.ok =>
    /\ hasMore = (delivered.fetched # <<>>)
    /\ delivered.reset => (page = 2 /\ posts = delivered.fetched)
    /\ ~delivered.reset =>
         /\ page = delivered.prevPage + 1
         /\ delivered.fetched = <<>> => posts = delivered.prevPosts

\* An append has just delivered an empty page to a non-empty list.
C3_Witness ==
  /\ delivered.ok /\ ~delivered.reset
  /\ delivered.fetched = <<>>
  /\ delivered.prevPosts # <<>>
  /\ ~hasMore
  /\ page = delivered.prevPage + 1

FeedInFlight == {r \in Requests : r.kind = "feed"}
FeedInFlightCount ==
  BagCardinality([r \in FeedInFlight |-> CopiesIn(r, inflight)])

\* C4: at most one feed request is outstanding, and loading is true for as
\* long as one is.
C4_SingleFlight ==
  /\ FeedInFlightCount <= 1
  /\ FeedInFlightCount > 0 => loading

\* C5: a step that switches the tab leaves the list empty and the cursor at
\* 1, the state the first fetch of the new tab is issued in.
C5_SwitchClearsListAndCursor ==
  [][tab' # tab => (posts' = <<>> /\ page' = 1)]_vars

\* C6: a tab switch or a refresh puts a reset request for page 1 of the tab
\* now active in flight and leaves hasMore true.
C6_SwitchOrRefreshStartsReset ==
  [][(tab' # tab \/ Refresh) =>
       LET req == FeedRequest(TRUE, 1, tab', username)
       IN /\ CopiesIn(req, inflight') = CopiesIn(req, inflight) + 1
          /\ loading'
          /\ hasMore']_vars

Settled == rpc \in {"returned", "thrown"}
Failing(status) ==
  /\ calls # <<>>
  /\ \A i \in 1..Len(calls) : calls[i] = Rejected(HttpError(status))
IsPrefix(s, t) == Len(s) <= Len(t) /\ \A i \in 1..Len(s) : s[i] = t[i]

\* C7: with the default retries an operation that always fails with 503 is
\* invoked 4 times, with waits of 1000, 2000 and 4000 ms in between, and
\* one that fails with 404 is invoked once, with no wait.
C7_DefaultRetrySchedule ==
  maxRetries = DefaultRetries =>
    /\ Failing(503) =>
         /\ IsPrefix(waits, <<1000, 2000, 4000>>)
         /\ Len(waits) = IF rpc = "call" THEN Len(calls) ELSE Len(calls) - 1
         /\ rpc # "returned"
         /\ (rpc = "thrown") = (Len(calls) = 4)
    /\ Failing(404) => (Len(calls) = 1 /\ waits = <<>> /\ rpc = "thrown")

\* Four invocations failed with 503 and the error was thrown.
C7_Witness ==
  /\ maxRetries = DefaultRetries
  /\ rpc = "thrown"
  /\ Failing(503)
  /\ Len(calls) = 4
  /\ waits = <<1000, 2000, 4000>>

IsNetworkFailure(e) == e.axios /\ e.request /\ e.response = 0
WasRetried(i) == i < Len(calls) \/ (i = Len(calls) /\ rpc = "wait")

\* C8: an attempt is retried only when it failed with no response received
\* at network level or with a response of status 500 or more.
C8_RetriesOnlyNetworkOr5xx ==
  \A i \in 1..Len(calls) :
    WasRetried(i) =>
      /\ ~calls[i].ok
      /\ IsNetworkFailure(calls[i].err) \/ calls[i].err.response >= 500

C9_Bounded ==
  /\ Len(calls) <= maxRetries + 1
  /\ \A i \in 1..Len(calls) - 1 : ~calls[i].ok
  /\ rpc = "thrown" => (result = calls[Len(calls)] /\ ~result.ok)
  /\ rpc = "returned" => (result = calls[Len(calls)] /\ result.ok)
  /\ (rpc = "thrown" /\ shouldRetry(result.err)) => Len(calls) = maxRetries + 1

\* C9: fetchWithRetry settles after at most N+1 invocations; what is thrown
\* is the error of the last attempt, what is returned is the result of the
\* attempt that succeeded, and that attempt is the last.
C9_SettlesWithLastOutcome == []C9_Bounded /\ <>Settled

\* All attempts failed with retryable errors, not all the same, and the
\* last one was thrown.
C9_Witness ==
  /\ rpc = "thrown"
  /\ maxRetries >= 2
  /\ Len(calls) = maxRetries + 1
  /\ calls[1] # calls[Len(calls)]
  /\ result = calls[Len(calls)]

NoFavoritesCallWithoutUsername ==
  \A r \in FeedInFlight : r.tab = "favorites" => r.fav # ""
FavoritesUnusable == tab = "favorites" /\ username = ""

\* C10: on the favorites tab without a username a reset fetch ends in the
\* validation message with nothing sent, an append fetch sends nothing, and
\* no favorites request is ever in flight without a username.
C10_FavoritesFailFast ==
  /\ []NoFavoritesCallWithoutUsername
  /\ [][(FavoritesUnusable /\ ~loading /\ (Refresh \/ Search)) =>
          (error' = ValidationMsg /\ inflight' = inflight /\ ~loading')]_vars
  /\ [][(FavoritesUnusable /\ (Scroll \/ Retry)) =>
          (inflight' = inflight /\ error' = error)]_vars

\* The favorites tab without a username, showing the validation message
\* with nothing in flight.
C10_Witness ==
  /\ FavoritesUnusable
  /\ error = ValidationMsg
  /\ ~loading
  /\ inflight = EmptyBag

\* C11: after a failed reset fetch the error state is the translated
\* message of the error caught; after a failed append fetch the error state
\* is what it was when the failure arrived.
C11_FailureSurfacedOnlyOnReset ==
  delivered.failed =>
    error = IF delivered.reset THEN delivered.message ELSE delivered.prevError

\* An append (the retry button of the banner) has just failed while the
\* banner showed the message of an earlier failed reset.
C11_Witness ==
  /\ delivered.failed /\ ~delivered.reset
  /\ delivered.prevError # NULL
  /\ delivered.message # delivered.prevError
  /\ error = delivered.prevError

RECURSIVE words(_)
\* The words of a text: its maximal runs without a space, in order.
words(str) ==
  IF str = <<>> THEN <<>>
  ELSE IF Head(str) = " " THEN words(Tail(str))
  ELSE LET spaces == {i \in 1..Len(str) : str[i] = " "}
           n == IF spaces = {} THEN Len(str) + 1
                ELSE CHOOSE i \in spaces : \A j \in spaces : i <= j
       IN <<SubSeq(str, 1, n - 1)>> \o words(SubSeq(str, n, Len(str)))

\* C12: the query fetchPosts sends consists of rating:s when nsfw is not
\* enabled, then fav:<username> on the favorites tab, then the words of the
\* text typed; with nsfw enabled on the home tab it is the text typed itself.
C12_QueryComposition ==
  (call.fn = "finalQuery" /\ ~ret.threw) =>
    /\ words(ret.value) =
         (IF call.nsfwEnabled THEN <<>> ELSE << <<"rating", ":", "s">> >>)
           \o (IF call.tab = "favorites"
                 THEN << <<"fav", ":">> \o call.username >> ELSE <<>>)
           \o words(call.query)
    /\ (call.nsfwEnabled /\ call.tab = "home") => ret.value = call.query

\* The favorites of user u are fetched with nsfw disabled and a text of two
\* words: all three parts are present.
C12_Witness ==
  /\ call.fn = "finalQuery" /\ ~ret.threw
  /\ call.tab = "favorites" /\ ~call.nsfwEnabled
  /\ Len(words(call.query)) = 2
  /\ ret.value = <<"rating", ":", "s", " ", "fav", ":", "u", " ", "a", " ", "a">>

HidingCategories == {"general", "species", "character", "artist"}

\* C13: isPostBlacklisted is true exactly when a tag of the general,
\* species, character or artist category equals, case included, an entry of
\* the blacklist; invalid, meta and lore tags and an empty blacklist hide
\* nothing.
C13_BlacklistedIffHidingTagListed ==
  call.fn = "isPostBlacklisted" =>
    (ret.value <=>
       \E cat \in HidingCategories :
         \E i \in 1..Len(call.post.tags[cat]) :
           \E j \in 1..Len(call.blacklist) :
             call.post.tags[cat][i] = call.blacklist[j])

\* A post is not hidden although the blacklist names its meta tag and, in
\* another case, its artist tag.
C13_Witness ==
  /\ call.fn = "isPostBlacklisted"
  /\ call.blacklist = <<"wolf">>
  /\ call.post.tags.meta = <<"wolf">>
  /\ call.post.tags.artist = <<"Wolf">>
  /\ ~ret.value

Hidden(id) == isPostBlacklisted(PostOf(id), blacklistedTags)
Count(s, x) == Cardinality({i \in 1..Len(s) : s[i] = x})

\* C14: a change of the blacklist leaves the accumulated list, the cursor
\* and hasMore as they are; a reset stores the page with its hidden posts,
\* and an append adds no second copy of a post of the list that is hidden.
C14_BlacklistOnlyFiltersView ==
  /\ [][blacklistedTags' # blacklistedTags =>
          UNCHANGED <<posts, page, hasMore>>]_vars
  /\ []((delivered.ok /\ delivered.reset) => posts = delivered.fetched)
  /\ []((delivered.ok /\ ~delivered.reset) =>
          \A id \in Range(delivered.prevPosts) :
            Hidden(id) => Count(posts, id) = Count(delivered.prevPosts, id))

\* An append has just delivered a page holding a post that is in the list
\* and hidden by the blacklist: the list still holds it once, the view not
\* at all.
C14_Witness ==
  /\ delivered.ok /\ ~delivered.reset
  /\ \E id \in Range(delivered.prevPosts) \cap Range(delivered.fetched) :
       /\ Hidden(id)
       /\ Count(delivered.prevPosts, id) = 1
       /\ Count(posts, id) = 1
       /\ Count(visible, id) = 0

\* The canonical target of the call: the base URL, the endpoint and the
\* parameters the caller gave, in their order.
Canonical ==
  baseUrl \o call.endpoint \o <<"?">> \o joinParams(call.params)
            \o (IF call.params = <<>> THEN <<>> ELSE <<"&">>)
HasParam(url, name) == \E i \in 1..Len(url) : url[i] = name
WithCredentials ==
  trim(call.settings.username) # <<>> /\ trim(call.settings.apiKey) # <<>>

\* C15 as stated: with proxying disabled the URL built is the canonical
\* target followed by further parameters, among them exactly one _cb, and
\* login and api_key are present exactly when username and API key are both
\* non-empty once trimmed.
C15_UrlWithoutProxy ==
  (call.fn = "buildApiUrl" /\ ~call.settings.enableProxy) =>
    /\ IsPrefix(Canonical, ret.value)
    /\ Count(ret.value, "_cb") = 1
    /\ HasParam(ret.value, "login") <=> WithCredentials
    /\ HasParam(ret.value, "api_key") <=> WithCredentials

RECURSIVE decodeURIComponent(_)
decodeURIComponent(str) ==
  IF str = <<>> THEN <<>>
  ELSE IF Head(str) = "%"
         THEN <<CHOOSE c \in DOMAIN Hex : Hex[c] = str[2]>>
                \o decodeURIComponent(SubSeq(str, 3, Len(str)))
         ELSE <<Head(str)>> \o decodeURIComponent(Tail(str))

\* The URL the same call builds with proxying disabled.
Target ==
  buildApiUrl(call.endpoint, call.params,
              [call.settings EXCEPT !.enableProxy = FALSE], call.now)
Proxied == call.fn = "buildApiUrl" /\ call.settings.enableProxy
AfterProxy ==
  SubSeq(ret.value, Len(call.settings.proxyUrl) + 1, Len(ret.value))

\* C16: with proxying enabled and a ? in the proxy URL, the URL built is the
\* proxy URL followed by the target percent-encoded: what follows the proxy
\* URL holds no reserved character and decodes to the target.
C16_PrefixProxyEncodesTarget ==
  (Proxied /\ includes(call.settings.proxyUrl, "?")) =>
    /\ IsPrefix(call.settings.proxyUrl, ret.value)
    /\ \A i \in 1..Len(AfterProxy) : AfterProxy[i] \notin DOMAIN Hex \ {"%"}
    /\ decodeURIComponent(AfterProxy) = Target

\* A prefix proxy in front of a search whose query was already escaped by
\* the target URL: its % is escaped once more.
C16_Witness ==
  /\ Proxied /\ includes(call.settings.proxyUrl, "?")
  /\ call.params # <<>>
  /\ \E i \in 1..(Len(AfterProxy) - 2) :
       AfterProxy[i] = "%" /\ AfterProxy[i + 1] = "25" /\ AfterProxy[i + 2] = "3A"

\* The origin of a URL: scheme, host and port, i.e. what precedes the first
\* slash after the two of the scheme.
originOf(url) ==
  LET slashes == {i \in 5..Len(url) : url[i] = "/"}
  IN IF slashes = {} THEN url
     ELSE SubSeq(url, 1, (CHOOSE i \in slashes : \A j \in slashes : i <= j) - 1)
PathAndQuery == SubSeq(Target, Len(baseUrl) + 1, Len(Target))
HostProxied ==
  /\ Proxied
  /\ call.settings.proxyUrl # <<>>
  /\ ~includes(call.settings.proxyUrl, "?")

ListLookups == {"searchTags", "getComments", "getUsersByIds"}
ObjectLookups == {"getUser", "getUserByName"}

\* C18: no secondary lookup throws, whatever the transport did and whatever
\* the body of the response; when the transport failed, searchTags,
\* getComments and getUsersByIds return an empty list, getUser and
\* getUserByName null.
C18_LookupsSwallowErrors ==
  (call.fn \in ListLookups \cup ObjectLookups) =>
    /\ ~ret.threw
    /\ ~call.reply.ok =>
         ret.value = IF call.fn \in ListLookups THEN Arr(<<>>) ELSE Null

\* getUserByName has sent its request, the transport failed, and null came
\* back.
C18_Witness ==
  /\ call.fn = "getUserByName"
  /\ ~call.reply.ok
  /\ ret.sent # <<>>
  /\ ~ret.threw /\ ret.value = Null

\* The users a response to /users.json lists.
Listed(data) ==
  IF data.kind = "array" THEN data.items
  ELSE IF data.kind = "object" /\ "users" \in DOMAIN data THEN data.users.items
  ELSE <<>>
SameName(a, b) == toLowerCase(a) = toLowerCase(b)

\* C19: of the users of the response getUserByName returns the first whose
\* name is the queried name up to case, the first user when there is none,
\* and null when the response lists no user.
C19_ExactNamePreferred ==
  (call.fn = "getUserByName" /\ call.reply.ok) =>
    LET users == Listed(call.reply.data)
        exact == {i \in 1..Len(users) : SameName(users[i].name, call.arg)}
    IN IF users = <<>> THEN ret.value = Null
       ELSE IF exact = {} THEN ret.value = users[1]
       ELSE \E i \in exact : /\ ret.value = users[i]
                              /\ \A j \in exact : i <= j

\* The response lists foobar before FOO and foo is asked for: FOO comes back.
C19_Witness ==
  /\ call.fn = "getUserByName" /\ call.reply.ok
  /\ call.arg = <<"f", "oo">>
  /\ Listed(call.reply.data) =
       <<User(1, <<"f", "oo", "bar">>), User(2, <<"F", "OO">>)>>
  /\ ret.value = User(2, <<"F", "OO">>)

\* The response to /comments.json lists no comment.
NoComments(reply) ==
  \/ ~reply.ok
  \/ reply.data.kind = "null"
  \/ reply.data.kind = "array" /\ reply.data.items = <<>>
  \/ /\ reply.data.kind = "object"
     /\ "comments" \in DOMAIN reply.data => reply.data.comments.items = <<>>

\* C20: getUsersByIds with no id returns the empty list and sends nothing,
\* and load sends no request to /users.json for a post without comments.
C20_NoLookupWithoutIds ==
  /\ (call.fn = "getUsersByIds" /\ call.arg = <<>>) =>
       (ret.value = Arr(<<>>) /\ ret.sent = <<>>)
  /\ (call.fn = "load" /\ NoComments(call.reply)) =>
       \A i \in 1..Len(ret.sent) : ret.sent[i].path # "/users.json"

\* load has run to its end for a post whose comments came back as an empty
\* list: the comments were asked for and nothing else.
C20_Witness ==
  /\ call.fn = "load" /\ ~call.cancelled
  /\ call.reply = Got(Wrapped("comments", Arr(<<>>)))
  /\ call.usersReply.ok
  /\ ret.value = Arr(<<>>)
  /\ ret.sent = <<Request("/comments.json", 1)>>

\* C21: parseApiError puts every error in exactly one message class: the
\* authentication message (with the status) when the error carries a
\* response with status 401 or 403, the server-error message made of status
\* and status text for any other response, the network message when a
\* request was made and no response came, and otherwise a fallback (the
\* error's own message, or the fixed text when the value is no Error).
Parsed == call.fn = "parseApiError"
ResponseReceived(e) == e.response # 0
MessageClass(m) ==
  {c \in {"auth", "server", "network", "fallback"} :
     \/ c = "auth" /\ \E st \in StatusCodes : m = AuthMessage(st)
     \/ c = "server" /\ \E st \in StatusCodes, tx \in StatusTexts :
                           m = ServerMessage(st, tx)
     \/ c = "network" /\ m = NetworkMessage
     \/ c = "fallback" /\ m \in ErrorMessages \cup {UnexpectedMessage}}
ExpectedClass(e) ==
  IF ResponseReceived(e)
    THEN IF e.response \in {401, 403} THEN "auth" ELSE "server"
    ELSE IF e.request THEN "network" ELSE "fallback"
C21_OneMessageClassPerError ==
  Parsed =>
    LET e == call.arg
        m == ret.value
    IN /\ ~ret.threw
       /\ MessageClass(m) = {ExpectedClass(e)}
       /\ ExpectedClass(e) = "auth" => m = AuthMessage(e.response)
       /\ ExpectedClass(e) = "server" =>
            m = ServerMessage(e.response, e.statusText)
       /\ ExpectedClass(e) = "fallback" =>
            m = IF e.isError THEN e.message ELSE UnexpectedMessage
C21_Witness ==
  /\ Parsed
  /\ call.arg.response = 403
  /\ call.arg.statusText = "Forbidden"
  /\ ret.value = "Authentication failed (403). Check your API credentials."

\* C22: autocomplete responses carry no cancellation or sequence number:
\* whichever pending call settles, its response becomes the suggestions,
\* also when a call issued later has settled before it; so a state is
\* reachable in which the suggestions shown are the answer to an older query
\* than the latest one issued (C22_Witness).
SearchSettled(i) == i \in pending /\ pending' = pending \ {i}
C22_EveryResponseIsShown ==
  [][\A i \in 1..Len(issued) :
       SearchSettled(i) => suggestions' \in SearchReplies(issued[i])]_vars
C22_Witness ==
  /\ pending = {}
  /\ Len(issued) >= 2
  /\ lastTag(debouncedQuery) = issued[Len(issued)]
  /\ showSuggestions
  /\ suggestions # <<>>
  /\ suggestions = TagsFor(issued[1])
  /\ suggestions # TagsFor(issued[Len(issued)])

\* C23: a response that reaches a run of the load effect whose cancelled
\* flag is set (the view was closed, or its post or the settings changed)
\* changes neither comments nor loadingComments nor uploaderName; and a run
\* sends its getUsersByIds request only in the step in which its
\* getComments call completes.
Responded(i) == i \in 1..Len(runs) /\ runs'[i] # runs[i] /\ runs[i].cancelled
BatchSent(i) ==
  /\ i \in 1..Len(runs)
  /\ "getUsersByIds" \in Range(runs'[i].sent) \ Range(runs[i].sent)
C23_CancelledRunUpdatesNothing ==
  [][\A i \in 1..MaxRuns :
       /\ Responded(i) =>
            UNCHANGED <<comments, loadingComments, uploaderName>>
       /\ BatchSent(i) =>
            runs[i].stage = "comments" /\ runs'[i].stage = "users"]_vars
C23_Witness ==
  \E i \in 1..Len(runs) :
    /\ runs[i].stage = "dropped"
    /\ runs[i].uploader = "dropped"
    /\ "getUsersByIds" \in Range(runs[i].sent)
    /\ detailPost # 0
    /\ detailPost # runs[i].post
    /\ comments # <<>>
    /\ uploaderName # Unknown

\* C24: loading settings stored in the single-account schema (username and
\* apiKey, no accounts) gives multi-account settings: with both credentials
\* non-empty there is exactly one account, it holds them and it is the
\* active one; otherwise there is no account and none is active.
LegacyLoaded ==
  /\ call.fn = "loadSettings"
  /\ call.stored.json
  /\ call.stored.parsed \in LegacyBlobs
C24_LegacyCredentialsBecomeActiveAccount ==
  LegacyLoaded =>
    LET parsed == call.stored.parsed
        loaded == ret.value
    IN /\ ~ret.threw
       /\ {"accounts", "activeAccountId"} \subseteq DOMAIN loaded
       /\ IF parsed.username # <<>> /\ parsed.apiKey # <<>>
            THEN /\ Len(loaded.accounts) = 1
                 /\ loaded.accounts[1].username = parsed.username
                 /\ loaded.accounts[1].apiKey = parsed.apiKey
                 /\ loaded.activeAccountId = loaded.accounts[1].id
                 /\ loaded.activeAccountId # NULL
            ELSE /\ loaded.accounts = <<>>
                 /\ loaded.activeAccountId = NULL
C24_Witness ==
  /\ LegacyLoaded
  /\ call.stored.parsed.username = <<"k">>
  /\ call.stored.parsed.apiKey = <<"k", "k">>
  /\ Len(ret.value.accounts) = 1
  /\ ret.value.activeAccountId = call.uuid

\* C25: a feed fetch that fails changes neither the accumulated list nor
\* the page cursor nor hasMore: the step that handles a rejected getPosts,
\* of a reset or of an append, leaves the three as it found them, and so
\* does a fetch that the favorites validation rejects before anything is
\* sent.
C25_FailedFetchKeepsListAndCursor ==
  /\ [][delivered'.failed => UNCHANGED <<posts, page, hasMore>>]_vars
  /\ [][(FavoritesUnusable /\ ~loading /\ (Refresh \/ Retry)) =>
          (inflight' = inflight /\ UNCHANGED <<posts, page, hasMore>>)]_vars
\* An append has just failed with a page already merged and more to come.
C25_Witness ==
  /\ delivered.failed /\ ~delivered.reset
  /\ posts # <<>>
  /\ page = 2
  /\ hasMore

\* C26: the loading flag is never stuck: whenever it is set it becomes false
\* again, and it is false whenever no feed or random-post request is
\* outstanding.
C26_LoadingNeverStuck ==
  /\ [](inflight = EmptyBag => ~loading)
  /\ loading ~> ~loading
C26_Witness ==
  /\ ~loading
  /\ inflight = EmptyBag
  /\ delivered.failed
  /\ posts # <<>>

\* The call that settled in the step taken: the one inflight has lost.
JustSettled(r) == CopiesIn(r, inflight') < CopiesIn(r, inflight)

\* C27: a page that is put into the list, with no fetch loading afterwards,
\* was fetched for the tab that is active: the response to a fetch issued
\* for the tab left behind is never shown as the feed of the tab switched to.
C27_ListComesFromActiveTab ==
  [][\A r \in Requests :
       (JustSettled(r) /\ delivered'.ok /\ posts' # <<>> /\ ~loading') =>
         r.tab = tab']_vars

\* C28: the error state is non-null only if the feed fetch that completed
\* last failed: once a fetch has succeeded, the retry of a failed reset
\* included, the error state is null.
C28_ErrorOnlyAfterFailedFetch == delivered.ok => error = NULL

\* C29: between two resets the pages put into the list are consecutive,
\* page 1 by the reset and page k+1 by the k-th append that succeeds, so no
\* page is merged twice: in particular an append that succeeds when the list
\* already holds posts was not requested for page 1.
C29_NoAppendOfPageOneToLoadedList ==
  [][\A r \in Requests :
       (JustSettled(r) /\ delivered'.ok /\ ~r.reset /\ posts # <<>>) =>
         r.page # 1]_vars

\* C30: in the settings as loaded and after any sequence of saving,
\* deleting and activating accounts, in the modal's copy and in the settings
\* it is saved to, the active account id is null or the id of an account in
\* the list, and no two accounts of the list have the same id.
ActiveIsListed(list, active) == active = NULL \/ active \in IdsOf(list)
DistinctIds(list) ==
  \A i, j \in 1..Len(list) : i # j => list[i].id # list[j].id
====
